---- MODULE Spec2Model ----
(***************************************************************************)
(* Chunk-fill-validate-retry-merge pipeline of SpayGen:                    *)
(*   ChunkProcessor            (langgraph_agents/chunk_processor_node.py)  *)
(*   SelectiveChunkProcessor   (selective_chunk_processor_node.py)         *)
(*   HTMLChunker metadata      (core/html_chunker.py)                      *)
(* One document is processed by process_chunks_with_selective_retry: the   *)
(* round-0 fill under asyncio.Semaphore(3), then the validate / retry /    *)
(* merge loop.  Texts are named tokens whose substring features the        *)
(* validators read; scores are in thousandths (1.0 = 1000).                *)
(***************************************************************************)
EXTENDS Integers, Sequences, FiniteSets, TLC

\* ------------------------------------------------------------------ bounds
\* Largest number of body chunks of a document.
MaxBodyChunks == 4
\* Largest number of body chunks of a document handed to a single call of
\* _merge_chunk_results (specification MergeSpec).
MaxMergeBodyChunks == 2

\* ------------------------------------------------------- program constants
\* max_retry_attempts: int = 2, also the value chunked_modification_node passes
DefaultMaxRetryAttempts == 2
\* asyncio.Semaphore(3)
SemaphoreWidthWide == 3 + 1
SemaphoreWidth == 3

\* ------------------------------------------------------------------- texts
\* Texts the pipeline handles, by name.  Template texts come from the
\* chunker (serialized elements); the others are what the LLM may answer.
\*   tpl_neutral     markup without brand, contact or product wording
\*   tpl_generic     markup with a placeholder brand and an example.com email
\*   filled_ok       markup with the spec's brand and contact values
\*   filled_generic  markup with the spec's brand and a placeholder brand left
\*   chatter         an answer that is not markup (no answer of LLMOutputs)
TemplateContents == {"tpl_neutral", "tpl_generic"}
LLMOutputs == {"filled_ok", "filled_generic"}

\* What the string tests of the code see in each text.
\*   has_generic       one of generic_brands occurs (case-insensitive)
\*   has_correct_brand spec.brand_name occurs (case-insensitive)
\*   has_brand_word    "jewelry", "store" or "brand" occurs
\*   has_at .. has_spec_address   the tests of _validate_contact_info
\*   relevance_warnings  number of warnings _validate_content_relevance emits
\*   wrapped           strip() starts with '<' and ends with '>'
\*   blank             strip() is empty
\*   has_tag           BeautifulSoup finds a tag
\*   length            len(text)
Features(text) ==
    CASE text = "tpl_neutral" ->
           [has_generic |-> FALSE, has_correct_brand |-> FALSE, has_brand_word |-> FALSE,
            has_at |-> FALSE, has_spec_email |-> FALSE, has_generic_domain |-> FALSE,
            has_phone_pattern |-> FALSE, has_spec_phone |-> FALSE,
            has_moscow |-> FALSE, has_spec_address |-> FALSE,
            relevance_warnings |-> 0,
            wrapped |-> TRUE, blank |-> FALSE, has_tag |-> TRUE, length |-> 8]
      [] text = "tpl_generic" ->
           [has_generic |-> TRUE, has_correct_brand |-> FALSE, has_brand_word |-> TRUE,
            has_at |-> TRUE, has_spec_email |-> FALSE, has_generic_domain |-> TRUE,
            has_phone_pattern |-> FALSE, has_spec_phone |-> FALSE,
            has_moscow |-> FALSE, has_spec_address |-> FALSE,
            relevance_warnings |-> 1,
            wrapped |-> TRUE, blank |-> FALSE, has_tag |-> TRUE, length |-> 8]
      [] text = "filled_ok" ->
           [has_generic |-> FALSE, has_correct_brand |-> TRUE, has_brand_word |-> FALSE,
            has_at |-> TRUE, has_spec_email |-> TRUE, has_generic_domain |-> FALSE,
            has_phone_pattern |-> TRUE, has_spec_phone |-> TRUE,
            has_moscow |-> FALSE, has_spec_address |-> FALSE,
            relevance_warnings |-> 0,
            wrapped |-> TRUE, blank |-> FALSE, has_tag |-> TRUE, length |-> 8]
      [] text = "filled_generic" ->
           [has_generic |-> TRUE, has_correct_brand |-> TRUE, has_brand_word |-> TRUE,
            has_at |-> TRUE, has_spec_email |-> TRUE, has_generic_domain |-> FALSE,
            has_phone_pattern |-> FALSE, has_spec_phone |-> FALSE,
            has_moscow |-> FALSE, has_spec_address |-> FALSE,
            relevance_warnings |-> 0,
            wrapped |-> TRUE, blank |-> FALSE, has_tag |-> TRUE, length |-> 8]
      [] text = "chatter" ->
           [has_generic |-> FALSE, has_correct_brand |-> TRUE, has_brand_word |-> FALSE,
            has_at |-> FALSE, has_spec_email |-> FALSE, has_generic_domain |-> FALSE,
            has_phone_pattern |-> FALSE, has_spec_phone |-> FALSE,
            has_moscow |-> FALSE, has_spec_address |-> FALSE,
            relevance_warnings |-> 0,
            wrapped |-> FALSE, blank |-> FALSE, has_tag |-> FALSE, length |-> 6]
      [] OTHER ->
           [has_generic |-> FALSE, has_correct_brand |-> FALSE, has_brand_word |-> FALSE,
            has_at |-> FALSE, has_spec_email |-> FALSE, has_generic_domain |-> FALSE,
            has_phone_pattern |-> FALSE, has_spec_phone |-> FALSE,
            has_moscow |-> FALSE, has_spec_address |-> FALSE,
            relevance_warnings |-> 0,
            wrapped |-> FALSE, blank |-> TRUE, has_tag |-> FALSE, length |-> 0]

\* ------------------------------------------------------------------ chunks
HeadId == <<"head", 0>>
SectionId(i) == <<"section", i>>
NoId == <<"none", 0>>

\* HTMLChunker._extract_element_metadata: nav and footer are not modifiable.
ExtractElementMetadata(tag) ==
    [tag_name |-> tag, modifiable |-> tag \notin {"nav", "footer"}]

\* HTMLChunker._create_head_chunk
CreateHeadChunk(text) ==
    [id |-> HeadId, content |-> text, chunk_type |-> "head", modifiable |-> FALSE]

\* HTMLChunker._split_body_content, the branch of an element within the size
\* limit: element i of the structural elements becomes chunk section_i.
BodyChunk(i, tag, text) ==
    [id |-> SectionId(i), content |-> text, chunk_type |-> tag,
     modifiable |-> ExtractElementMetadata(tag).modifiable]

\* Tags of the body elements of the documents considered, in the order of
\* HTMLChunker.STRUCTURAL_TAGS (_find_structural_elements collects tag-major).
BodyTags == {"nav", "section"}
TagRank(tag) == IF tag = "nav" THEN 2 ELSE 4

MakeChunks(headText, body) ==
    <<CreateHeadChunk(headText)>> \o
    [k \in 1..Len(body) |-> BodyChunk(k - 1, body[k][1], body[k][2])]

\* The bodies of at most maxLen elements, all cut from a template with the
\* given kind of text.
Bodies(text, maxLen) ==
    UNION { { b \in [1..n -> BodyTags \X {text}] :
                \A k \in 1..(n-1) : TagRank(b[k][1]) <= TagRank(b[k+1][1]) }
            : n \in 0..maxLen }

Documents(maxLen) ==
    UNION { { MakeChunks(h, b) : b \in Bodies(h, maxLen) } : h \in TemplateContents }

\* ----------------------------------------------------------------- results
NoResult ==
    [chunk_id |-> NoId, processed_content |-> "", validation_score |-> 0,
     errors |-> <<>>, warnings |-> <<>>]

\* ChunkProcessor._create_unmodified_result and the early return of process_chunk
CreateUnmodifiedResult(chunk) ==
    [chunk_id |-> chunk.id, processed_content |-> chunk.content,
     validation_score |-> 1000, errors |-> <<>>,
     warnings |-> <<"Chunk marked as non-modifiable">>]

\* ChunkProcessor._create_error_result and the except branch of process_chunk
CreateErrorResultBlank(chunk, msg) ==
    [chunk_id |-> chunk.id, processed_content |-> "",
     validation_score |-> 0, errors |-> <<msg>>, warnings |-> <<>>]
CreateErrorResult(chunk, msg) ==
    [chunk_id |-> chunk.id, processed_content |-> chunk.content,
     validation_score |-> 0, errors |-> <<msg>>, warnings |-> <<>>]

\* ChunkProcessor._extract_modified_content
ExtractModifiedContentRaw(llm_output, fallback_content) == llm_output
ExtractModifiedContent(llm_output, fallback_content) ==
    IF Features(llm_output).wrapped THEN llm_output ELSE fallback_content

\* ChunkProcessor._validate_chunk
ValidateChunk(processed_content, original_chunk) ==
    LET f == Features(processed_content)
        s1 == IF f.blank THEN 0 ELSE 1000
        e1 == IF f.blank THEN <<"Processed content is empty">> ELSE <<>>
        short == 2 * f.length < Features(original_chunk.content).length
        s2 == IF short THEN (s1 * 8) \div 10 ELSE s1
        w2 == IF short THEN <<"Significant content reduction detected">> ELSE <<>>
        s3 == IF ~f.has_tag THEN 0 ELSE s2
        e3 == IF ~f.has_tag THEN e1 \o <<"Invalid HTML structure (no tags found)">> ELSE e1
    IN [score |-> s3, errors |-> e3, warnings |-> w2]

\* The success path of process_chunk / process_chunk_with_enhanced_instructions
ProcessedResult(chunk, llm_output) ==
    LET processed_content == ExtractModifiedContent(llm_output, chunk.content)
        v == ValidateChunk(processed_content, chunk)
    IN [chunk_id |-> chunk.id, processed_content |-> processed_content,
        validation_score |-> v.score, errors |-> v.errors, warnings |-> v.warnings]

\* The LLM call of one chunk ends with an answer or with an exception.
LLMOutcomes == LLMOutputs \cup {"raise"}
ExceptionMessage == "filler failed"

ResultOfOutcome(chunk, outcome) ==
    IF outcome = "raise" THEN CreateErrorResult(chunk, ExceptionMessage)
    ELSE ProcessedResult(chunk, outcome)

\* --------------------------------------------------- chunk content validator
\* The validator reads a content only through the substring tests that
\* Features records; each check below is given the outcome of those tests.
\* ChunkContentValidator._validate_brand_presence: the number of errors
BrandErrors(f) ==
    IF f.has_generic /\ ~f.has_correct_brand THEN 1
    ELSE IF f.has_generic THEN 1
    ELSE IF ~f.has_correct_brand /\ f.has_brand_word THEN 1
    ELSE 0

ValidateBrandPresence(text) == BrandErrors(Features(text))

\* ChunkContentValidator._validate_contact_info: the number of errors
ContactErrors(f) ==
      (IF f.has_at /\ ~f.has_spec_email /\ f.has_generic_domain THEN 1 ELSE 0)
    + (IF f.has_phone_pattern /\ ~f.has_spec_phone THEN 1 ELSE 0)
    + (IF f.has_moscow /\ ~f.has_spec_address THEN 1 ELSE 0)

ValidateContactInfo(text) == ContactErrors(Features(text))

\* ChunkContentValidator._validate_content_relevance: the number of warnings
RelevanceWarnings(f) == f.relevance_warnings

ValidateContentRelevance(text) == RelevanceWarnings(Features(text))

\* ChunkContentValidator.validate_chunk_content; the score in thousandths.
\* (The products of 0.7, 0.8 and 0.9 in binary floating point compare with
\* 0.7 as the exact products do: 0.7 >= 0.7, 0.8 * 0.9 > 0.7, 0.7 * 0.9 < 0.7.)
ScoreContentPerError(f) ==
    LET brandBad == BrandErrors(f) # 0
        s1 == IF brandBad THEN (1000 * 7) \div 10 ELSE 1000
        s2 == IF ContactErrors(f) >= 2 THEN (((s1 * 8) \div 10) * 8) \div 10
              ELSE IF ContactErrors(f) = 1 THEN (s1 * 8) \div 10 ELSE s1
        s3 == IF RelevanceWarnings(f) # 0 THEN (s2 * 9) \div 10 ELSE s2
    IN [is_valid |-> s3 >= 700, score |-> s3, has_brand_mismatch |-> brandBad]

ScoreContent(f) ==
    LET brandBad == BrandErrors(f) # 0
        s1 == IF brandBad THEN (1000 * 7) \div 10 ELSE 1000
        s2 == IF ContactErrors(f) # 0 THEN (s1 * 8) \div 10 ELSE s1
        s3 == IF RelevanceWarnings(f) # 0 THEN (s2 * 9) \div 10 ELSE s2
    IN [is_valid |-> s3 >= 700, score |-> s3, has_brand_mismatch |-> brandBad]

ValidateChunkContent(text) == ScoreContent(Features(text))

\* SelectiveChunkProcessor._validate_chunk_results: the needs_regeneration
\* it computes from one validation
NeedsRegenerationFlag(validation) ==
    validation.score < 700 \/ validation.has_brand_mismatch

NeedsRegeneration(result) ==
    NeedsRegenerationFlag(ValidateChunkContent(result.processed_content))

\* _validate_chunk_results followed by _identify_failed_chunk_ids
IdentifyFailedChunkIds(results) ==
    { results[k].chunk_id : k \in { j \in 1..Len(results) : NeedsRegeneration(results[j]) } }

\* ---------------------------------------------------------------- sequences
RECURSIVE SelectSeqBy(_, _, _)
\* [x for x in s if key(x) in ids], for chunks (key = id)
SelectSeqBy(s, ids, k) ==
    IF k > Len(s) THEN <<>>
    ELSE (IF s[k].id \in ids THEN <<s[k]>> ELSE <<>>) \o SelectSeqBy(s, ids, k + 1)

\* failed_chunks = [chunk for chunk in chunks if chunk.id in failed_chunk_ids]
FailedChunksEvery(chunkSeq, ids) == chunkSeq
FailedChunks(chunkSeq, ids) == SelectSeqBy(chunkSeq, ids, 1)

\* retry_dict = {result.chunk_id: result for result in retry_results}:
\* the last entry of an id wins.
RetryDictHas(retry, id) == \E k \in 1..Len(retry) : retry[k].chunk_id = id
RetryDictGet(retry, id) ==
    LET last == CHOOSE k \in 1..Len(retry) :
                   /\ retry[k].chunk_id = id
                   /\ \A j \in (k+1)..Len(retry) : retry[j].chunk_id # id
    IN retry[last]

\* SelectiveChunkProcessor._merge_chunk_results
MergeChunkResultsRetryFirst(original_results, retry_results) ==
    retry_results \o
    SelectSeq(original_results, LAMBDA r : ~RetryDictHas(retry_results, r.chunk_id))
MergeChunkResultsPositional(original_results, retry_results) ==
    [k \in 1..Len(original_results) |->
        IF k <= Len(retry_results) THEN retry_results[k] ELSE original_results[k]]
MergeChunkResults(original_results, retry_results) ==
    [k \in 1..Len(original_results) |->
        IF RetryDictHas(retry_results, original_results[k].chunk_id)
        THEN RetryDictGet(retry_results, original_results[k].chunk_id)
        ELSE original_results[k]]

\* results = await asyncio.gather(*tasks): the result of task i is in place i
GatherStoreByCompletion(gathered, i, result) ==
    LET free == CHOOSE k \in 1..Len(gathered) :
                   /\ gathered[k] = NoResult
                   /\ \A j \in 1..(k-1) : gathered[j] # NoResult
    IN [gathered EXCEPT ![free] = result]
GatherStore(gathered, i, result) == [gathered EXCEPT ![i] = result]

\* result = await process_chunk_with_enhanced_instructions(...);
\* retry_results.append(result)
RetryAppendUnlessFailed(retry, chunk, outcome) ==
    IF outcome = "raise" THEN retry ELSE Append(retry, ResultOfOutcome(chunk, outcome))
RetryAppend(retry, chunk, outcome) == Append(retry, ResultOfOutcome(chunk, outcome))

\* for attempt in range(max_retry_attempts)
LoopContinuesOnceMore(att, maxAttempts) == att <= maxAttempts + 1
LoopContinuesInclusive(att, maxAttempts) == att <= maxAttempts
LoopContinues(att, maxAttempts) == att < maxAttempts

\* the retry_attempt argument of _retry_failed_chunks in the loop: attempt + 1
RetryAttemptOfSame(att) == att
RetryAttemptOf(att) == att + 1

\* _enhance_content_for_retry: enhanced_content.enhancement_instructions; the
\* generated content comes with an empty list
EnhanceContentForRetry(retry_attempt) ==
    CASE retry_attempt = 1 -> "CRITICAL: Use exact"
      [] retry_attempt = 2 -> "MANDATORY REPLACEMENT"
      [] OTHER -> ""

\* _create_enhanced_chunk_prompt_template: strict_instructions
StrictInstructions(retry_attempt) ==
    IF retry_attempt >= 2 THEN "CRITICAL MANDATORY REPLACEMENTS"
    ELSE "Focus on using EXACT values"

\* the system message of the retry's prompt
EnhancedPrompt(retry_attempt) ==
    [retry_attempt |-> retry_attempt,
     strict_instructions |-> StrictInstructions(retry_attempt),
     enhancement_text |-> EnhanceContentForRetry(retry_attempt)]

NoPrompt == [retry_attempt |-> 0, strict_instructions |-> "", enhancement_text |-> ""]

\* if not failed_chunk_ids: break
BreaksLoopNever(failed) == FALSE
BreaksLoop(failed) == failed = {}

\* if not chunk.metadata.get("modifiable", True), in process_chunk
ShortCircuits(chunk) == ~chunk.modifiable
\* the same test in process_chunk_with_enhanced_instructions
ShortCircuitsRetryNever(chunk) == FALSE
ShortCircuitsRetry(chunk) == ~chunk.modifiable

\* ------------------------------------------------------------------- state
VARIABLES
    chunks,              \* the document's chunks, as split_html returns them
    max_retry_attempts,  \* the argument of process_chunks_with_selective_retry
    pc,                  \* where the coordinator is
    task,                \* round 0: each process_single_chunk task's position
    semaphore,           \* round 0: the value of asyncio.Semaphore(3)
    gathered,            \* round 0: the list asyncio.gather fills
    chunk_results,       \* the coordinator's current result list
    attempt,             \* the loop variable of the retry loop
    failed_chunk_ids,    \* the failed set of the current round
    failed_chunks,       \* the chunks retried in the current round
    retry_results,       \* the retry output built by _retry_failed_chunks
    retry_inflight,      \* a retry's LLM call is awaited
    retry_prompt,        \* history: the instructions of the latest retry call
    round_calls,         \* history: LLM calls per chunk in the current round
    total_calls,         \* history: LLM calls per chunk for the document
    last_outcome,        \* history: how each chunk's latest LLM call ended
    validation_passes,   \* history: runs of _validate_chunk_results
    results_validated,   \* history: chunk_results was validated since it last changed
    merged_results,      \* MergeSpec: what the call of _merge_chunk_results returned
    content_tests,       \* ValidatorSpec: what the validator's tests see in the content
    validation_results,  \* ValidatorSpec: the list _validate_chunk_results returned
    document,            \* ChunkerSpec: the parsed document given to split_html
    html_chunks,         \* ChunkerSpec: the list split_html returned
    reconstructed,       \* ChunkerSpec: the string reconstruct_html returned
    validation_error,    \* ClassifierSpec: the error string given to the analyzer
    classified_issue,    \* ClassifierSpec: what _categorize_and_create_issue returned
    final_html,          \* the whole document the analyzer and the fixers are given
    validation_errors,   \* FixerSpec: final_validation.errors
    page_spec,           \* FixerSpec: what the fixers read of the WhitePageSpec
    issues,              \* FixerSpec: what analyze_validation_errors returned
    sorted_issues,       \* FixerSpec: the sorted list apply_targeted_fixes loops over
    issue_index,         \* FixerSpec: the position of that loop
    fixed_html,          \* FixerSpec: the loop's document
    fix_log,             \* history: each fixer call, its document before and after
    fix_pass,            \* FixerTwiceSpec: the number of the apply_targeted_fixes call
    first_fixed_html,    \* FixerTwiceSpec: what the first call returned
    selected_template,   \* NodeSpec: state["selected_template"], its html parsed
    generated_content,   \* NodeSpec: state["generated_content"] is there
    doctype,             \* NodeSpec: the doctype local of chunked_modification_node
    messages,            \* NodeSpec: state["messages"]
    response,            \* ParserSpec: what the validator's chain returned
    final_validation,    \* ParserSpec: state["final_validation"]
    calls,               \* CallsSpec: the locals of each running coordinator call
    graph                \* GraphSpec: the workflow's GraphState and the node it is at

validatorVars == <<content_tests, validation_results>>
chunkerVars == <<document, html_chunks, reconstructed>>
classifierVars == <<validation_error, classified_issue, final_html>>
fixerVars == <<validation_errors, page_spec, issues, sorted_issues, issue_index,
               fixed_html, fix_log, fix_pass, first_fixed_html>>
nodeVars == <<selected_template, generated_content, doctype, messages>>
parserVars == <<response, final_validation>>

vars == <<chunks, max_retry_attempts, pc, task, semaphore, gathered, chunk_results,
          attempt, failed_chunk_ids, failed_chunks, retry_results, retry_inflight,
          retry_prompt,
          round_calls, total_calls, last_outcome, validation_passes, results_validated,
          merged_results, validatorVars, chunkerVars, classifierVars, fixerVars, nodeVars, parserVars, calls, graph>>

\* the validator on its own is not running
ValidatorIdle ==
    /\ content_tests = <<>>
    /\ validation_results = <<>>

\* the chunker on its own is not running
ChunkerIdle ==
    /\ document = <<>>
    /\ html_chunks = <<>>
    /\ reconstructed = <<>>

\* the analyzer on its own is not running
ClassifierIdle ==
    /\ validation_error = {}
    /\ classified_issue = <<>>
    /\ final_html = <<>>

\* chunked_modification_node is not running
NodeIdle ==
    /\ selected_template = <<>>
    /\ generated_content = FALSE
    /\ doctype = ""
    /\ messages = <<>>

\* the validation node is not running
ParserIdle ==
    /\ response = <<>>
    /\ final_validation = <<>>

\* no second coordinator call is running
CallsIdle == calls = <<>>

\* no workflow is running
GraphIdle == graph = <<>>

\* the targeted fixer on its own is not running
FixerIdle ==
    /\ validation_errors = <<>>
    /\ page_spec = <<>>
    /\ issues = <<>>
    /\ sorted_issues = <<>>
    /\ issue_index = 0
    /\ fixed_html = <<>>
    /\ fix_log = <<>>
    /\ fix_pass = 0
    /\ first_fixed_html = <<>>

N == Len(chunks)
IndexOf(chunk) == CHOOSE k \in 1..N : chunks[k].id = chunk.id
InFlight == Cardinality({i \in 1..N : task[i] = "inflight"})
              + (IF retry_inflight THEN 1 ELSE 0)

Init ==
    /\ chunks \in Documents(MaxBodyChunks)
    /\ max_retry_attempts \in 0..DefaultMaxRetryAttempts
    /\ pc = "initial"
    /\ task = [i \in 1..Len(chunks) |-> "pending"]
    /\ semaphore = SemaphoreWidth
    /\ gathered = [i \in 1..Len(chunks) |-> NoResult]
    /\ chunk_results = <<>>
    /\ attempt = 0
    /\ failed_chunk_ids = {}
    /\ failed_chunks = <<>>
    /\ retry_results = <<>>
    /\ retry_inflight = FALSE
    /\ retry_prompt = NoPrompt
    /\ round_calls = [i \in 1..Len(chunks) |-> 0]
    /\ total_calls = [i \in 1..Len(chunks) |-> 0]
    /\ last_outcome = [i \in 1..Len(chunks) |-> "none"]
    /\ validation_passes = 0
    /\ results_validated = FALSE
    /\ merged_results = <<>>
    /\ ValidatorIdle
    /\ ChunkerIdle
    /\ ClassifierIdle
    /\ FixerIdle
    /\ NodeIdle
    /\ ParserIdle
    /\ CallsIdle
    /\ GraphIdle

\* ---------------------------------------------------------------- round 0
\* process_single_chunk(chunks[i]) enters "async with semaphore" and runs
\* process_chunk up to its first await: a non-modifiable chunk returns at
\* once (and leaves the semaphore), any other starts its LLM call.  gather
\* schedules the tasks in list order and the semaphore wakes its waiters
\* first-in first-out, so the tasks enter in list order.  (The head branch
\* of _modify_chunk_content is not reached: the head chunk is never
\* modifiable.)
TaskAcquire(i) ==
    /\ pc = "initial"
    /\ task[i] = "pending"
    /\ \A j \in 1..(i-1) : task[j] # "pending"
    /\ semaphore > 0
    /\ IF ShortCircuits(chunks[i])
       THEN /\ task' = [task EXCEPT ![i] = "finished"]
            /\ gathered' = GatherStore(gathered, i, CreateUnmodifiedResult(chunks[i]))
            /\ UNCHANGED <<semaphore, round_calls, total_calls>>
       ELSE /\ task' = [task EXCEPT ![i] = "inflight"]
            /\ semaphore' = semaphore - 1
            /\ round_calls' = [round_calls EXCEPT ![i] = @ + 1]
            /\ total_calls' = [total_calls EXCEPT ![i] = @ + 1]
            /\ UNCHANGED gathered
    /\ UNCHANGED <<chunks, max_retry_attempts, pc, chunk_results, attempt,
                   failed_chunk_ids, failed_chunks, retry_results, retry_inflight, retry_prompt,
                   last_outcome, validation_passes, results_validated,
                   merged_results, validatorVars, chunkerVars, classifierVars, fixerVars, nodeVars, parserVars, calls, graph>>

\* The LLM call of task i ends (an answer or an exception); process_chunk
\* builds the result, the semaphore is released, gather keeps the result.
FillerReturns(i, outcome) ==
    /\ pc = "initial"
    /\ task[i] = "inflight"
    /\ task' = [task EXCEPT ![i] = "finished"]
    /\ semaphore' = semaphore + 1
    /\ gathered' = GatherStore(gathered, i, ResultOfOutcome(chunks[i], outcome))
    /\ last_outcome' = [last_outcome EXCEPT ![i] = outcome]
    /\ UNCHANGED <<chunks, max_retry_attempts, pc, chunk_results, attempt,
                   failed_chunk_ids, failed_chunks, retry_results, retry_inflight, retry_prompt,
                   round_calls, total_calls, validation_passes, results_validated,
                   merged_results, validatorVars, chunkerVars, classifierVars, fixerVars, nodeVars, parserVars, calls, graph>>

\* Every task has ended: process_chunks_parallel returns processed_results
\* and the coordinator reaches its loop.
GatherReturns ==
    /\ pc = "initial"
    /\ \A i \in 1..N : task[i] = "finished"
    /\ chunk_results' = gathered
    /\ pc' = "loop"
    /\ attempt' = 0
    /\ results_validated' = FALSE
    /\ UNCHANGED <<chunks, max_retry_attempts, task, semaphore, gathered,
                   failed_chunk_ids, failed_chunks, retry_results, retry_inflight, retry_prompt,
                   round_calls, total_calls, last_outcome, validation_passes,
                   merged_results, validatorVars, chunkerVars, classifierVars, fixerVars, nodeVars, parserVars, calls, graph>>

\* ------------------------------------------------------------- retry loop
\* A loop iteration begins: validate, identify the failed ids, break when
\* there is none, else select the failed chunks and enter _retry_failed_chunks.
Validate ==
    /\ pc = "loop"
    /\ LoopContinues(attempt, max_retry_attempts)
    /\ validation_passes' = validation_passes + 1
    /\ results_validated' = TRUE
    /\ failed_chunk_ids' = IdentifyFailedChunkIds(chunk_results)
    /\ IF BreaksLoop(failed_chunk_ids')
       THEN /\ pc' = "done"
            /\ UNCHANGED <<failed_chunks, retry_results, round_calls>>
       ELSE /\ pc' = "retry"
            /\ failed_chunks' = FailedChunks(chunks, failed_chunk_ids')
            /\ retry_results' = <<>>
            /\ round_calls' = [i \in 1..N |-> 0]
    /\ UNCHANGED <<chunks, max_retry_attempts, task, semaphore, gathered,
                   chunk_results, attempt, retry_inflight, retry_prompt, total_calls, last_outcome,
                   merged_results, validatorVars, chunkerVars, classifierVars, fixerVars, nodeVars, parserVars, calls, graph>>

\* range(max_retry_attempts) is exhausted: return chunk_results.
LoopExhausted ==
    /\ pc = "loop"
    /\ ~LoopContinues(attempt, max_retry_attempts)
    /\ pc' = "done"
    /\ UNCHANGED <<chunks, max_retry_attempts, task, semaphore, gathered,
                   chunk_results, attempt, failed_chunk_ids, failed_chunks,
                   retry_results, retry_inflight, retry_prompt, round_calls, total_calls,
                   last_outcome, validation_passes, results_validated,
                   merged_results, validatorVars, chunkerVars, classifierVars, fixerVars, nodeVars, parserVars, calls, graph>>

\* _retry_failed_chunks takes the next failed chunk:
\* process_chunk_with_enhanced_instructions returns at once for a
\* non-modifiable chunk and starts the LLM call for any other.
RetryNext ==
    /\ pc = "retry"
    /\ ~retry_inflight
    /\ Len(retry_results) < Len(failed_chunks)
    /\ LET chunk == failed_chunks[Len(retry_results) + 1]
       IN IF ShortCircuitsRetry(chunk)
          THEN /\ retry_results' = Append(retry_results, CreateUnmodifiedResult(chunk))
               /\ UNCHANGED <<retry_inflight, retry_prompt, round_calls, total_calls>>
          ELSE /\ retry_inflight' = TRUE
               /\ retry_prompt' = EnhancedPrompt(RetryAttemptOf(attempt))
               /\ round_calls' = [round_calls EXCEPT ![IndexOf(chunk)] = @ + 1]
               /\ total_calls' = [total_calls EXCEPT ![IndexOf(chunk)] = @ + 1]
               /\ UNCHANGED retry_results
    /\ UNCHANGED <<chunks, max_retry_attempts, pc, task, semaphore, gathered,
                   chunk_results, attempt, failed_chunk_ids, failed_chunks,
                   last_outcome, validation_passes, results_validated,
                   merged_results, validatorVars, chunkerVars, classifierVars, fixerVars, nodeVars, parserVars, calls, graph>>

\* The awaited LLM call of the retry ends; its result is appended.
RetryFillerReturns(outcome) ==
    /\ pc = "retry"
    /\ retry_inflight
    /\ LET chunk == failed_chunks[Len(retry_results) + 1]
       IN /\ retry_results' = RetryAppend(retry_results, chunk, outcome)
          /\ last_outcome' = [last_outcome EXCEPT ![IndexOf(chunk)] = outcome]
    /\ retry_inflight' = FALSE
    /\ UNCHANGED <<chunks, max_retry_attempts, pc, task, semaphore, gathered,
                   chunk_results, attempt, failed_chunk_ids, failed_chunks,
                   retry_prompt, round_calls, total_calls, validation_passes, results_validated,
                   merged_results, validatorVars, chunkerVars, classifierVars, fixerVars, nodeVars, parserVars, calls, graph>>

\* _retry_failed_chunks has returned: merge, and go to the next iteration.
Merge ==
    /\ pc = "retry"
    /\ ~retry_inflight
    /\ Len(retry_results) = Len(failed_chunks)
    /\ chunk_results' = MergeChunkResults(chunk_results, retry_results)
    /\ attempt' = attempt + 1
    /\ pc' = "loop"
    /\ results_validated' = FALSE
    /\ UNCHANGED <<chunks, max_retry_attempts, task, semaphore, gathered,
                   failed_chunk_ids, failed_chunks, retry_results, retry_inflight, retry_prompt,
                   round_calls, total_calls, last_outcome, validation_passes,
                   merged_results, validatorVars, chunkerVars, classifierVars, fixerVars, nodeVars, parserVars, calls, graph>>

Next ==
    \/ \E i \in 1..N : TaskAcquire(i)
    \/ \E i \in 1..N : \E outcome \in LLMOutcomes : FillerReturns(i, outcome)
    \/ GatherReturns
    \/ Validate
    \/ LoopExhausted
    \/ RetryNext
    \/ \E outcome \in LLMOutcomes : RetryFillerReturns(outcome)
    \/ Merge

Spec == Init /\ [][Next]_vars

\* The same coordinator on shorter documents, called with max_retry_attempts
\* up to MaxRetryRounds.
MaxRoundsBodyChunks == 2
MaxRetryRounds == 3

RoundsInit ==
    /\ chunks \in Documents(MaxRoundsBodyChunks)
    /\ max_retry_attempts \in 0..MaxRetryRounds
    /\ pc = "initial"
    /\ task = [i \in 1..Len(chunks) |-> "pending"]
    /\ semaphore = SemaphoreWidth
    /\ gathered = [i \in 1..Len(chunks) |-> NoResult]
    /\ chunk_results = <<>>
    /\ attempt = 0
    /\ failed_chunk_ids = {}
    /\ failed_chunks = <<>>
    /\ retry_results = <<>>
    /\ retry_inflight = FALSE
    /\ retry_prompt = NoPrompt
    /\ round_calls = [i \in 1..Len(chunks) |-> 0]
    /\ total_calls = [i \in 1..Len(chunks) |-> 0]
    /\ last_outcome = [i \in 1..Len(chunks) |-> "none"]
    /\ validation_passes = 0
    /\ results_validated = FALSE
    /\ merged_results = <<>>
    /\ ValidatorIdle
    /\ ChunkerIdle
    /\ ClassifierIdle
    /\ FixerIdle
    /\ NodeIdle
    /\ ParserIdle
    /\ CallsIdle
    /\ GraphIdle

RoundsSpec == RoundsInit /\ [][Next]_vars

\* ------------------------------------------- _merge_chunk_results, on its own
\* One call of _merge_chunk_results on the results of a document: the
\* original results are any round-0 results of its chunks, the retry output
\* holds one result for each chunk of any subset, in any order.
InjectiveSeqs(n) ==
    UNION { { f \in [1..m -> 1..n] : \A a, b \in 1..m : f[a] = f[b] => a = b }
            : m \in 0..n }

Round0Result(chunk, outcome) ==
    IF ShortCircuits(chunk) THEN CreateUnmodifiedResult(chunk)
    ELSE ResultOfOutcome(chunk, outcome)

RetryResult(chunk, outcome) ==
    IF ShortCircuitsRetry(chunk) THEN CreateUnmodifiedResult(chunk)
    ELSE ResultOfOutcome(chunk, outcome)

MergeInit ==
    /\ chunks \in Documents(MaxMergeBodyChunks)
    /\ max_retry_attempts = DefaultMaxRetryAttempts
    /\ pc = "merge_call"
    /\ task = [i \in 1..Len(chunks) |-> "finished"]
    /\ semaphore = SemaphoreWidth
    /\ gathered = <<>>
    /\ chunk_results \in
         { [k \in 1..Len(chunks) |-> Round0Result(chunks[k], o[k])]
           : o \in [1..Len(chunks) -> LLMOutcomes] }
    /\ attempt = 0
    /\ failed_chunk_ids = {}
    /\ failed_chunks = <<>>
    /\ retry_results \in
         { [k \in 1..Len(f) |-> RetryResult(chunks[f[k]], o[f[k]])]
           : f \in InjectiveSeqs(Len(chunks)), o \in [1..Len(chunks) -> LLMOutcomes] }
    /\ retry_inflight = FALSE
    /\ retry_prompt = NoPrompt
    /\ round_calls = [i \in 1..Len(chunks) |-> 0]
    /\ total_calls = [i \in 1..Len(chunks) |-> 0]
    /\ last_outcome = [i \in 1..Len(chunks) |-> "none"]
    /\ validation_passes = 0
    /\ results_validated = FALSE
    /\ merged_results = <<>>
    /\ ValidatorIdle
    /\ ChunkerIdle
    /\ ClassifierIdle
    /\ FixerIdle
    /\ NodeIdle
    /\ ParserIdle
    /\ CallsIdle
    /\ GraphIdle

MergeCall ==
    /\ pc = "merge_call"
    /\ merged_results' = MergeChunkResults(chunk_results, retry_results)
    /\ pc' = "merge_returned"
    /\ UNCHANGED <<chunks, max_retry_attempts, task, semaphore, gathered,
                   chunk_results, attempt, failed_chunk_ids, failed_chunks,
                   retry_results, retry_inflight, retry_prompt, round_calls, total_calls,
                   last_outcome, validation_passes, results_validated,
                   validatorVars, chunkerVars, classifierVars, fixerVars, nodeVars, parserVars, calls, graph>>

MergeNext == MergeCall

MergeSpec == MergeInit /\ [][MergeNext]_vars

\* ------------------------------------ the chunk validator, on its own
\* One run of _validate_chunk_results and _identify_failed_chunk_ids on the
\* result of one chunk, for any content and any spec: the content and the
\* spec reach the validator only through the outcome of its tests.
ContentTests ==
    [has_generic : BOOLEAN, has_correct_brand : BOOLEAN, has_brand_word : BOOLEAN,
     has_at : BOOLEAN, has_spec_email : BOOLEAN, has_generic_domain : BOOLEAN,
     has_phone_pattern : BOOLEAN, has_spec_phone : BOOLEAN,
     has_moscow : BOOLEAN, has_spec_address : BOOLEAN,
     relevance_warnings : 0..2]

\* What the tests see in the content "Contact: test@example.com" under a
\* spec whose contact_email is "info@brand.com": an '@', the domain
\* example.com, not the spec's email; no generic brand, none of "jewelry",
\* "store", "brand", no phone pattern, no city, no generic product word.
\* The spec's brand name, phone, address and business description are free.
ContactExampleTests ==
    { f \in ContentTests :
        /\ ~f.has_generic /\ ~f.has_brand_word
        /\ f.has_at /\ ~f.has_spec_email /\ f.has_generic_domain
        /\ ~f.has_phone_pattern /\ ~f.has_moscow
        /\ f.relevance_warnings \in 0..1 }

\* the ChunkValidationResult _validate_chunk_results builds for one result
ChunkValidation(chunk_id, f) ==
    LET validation == ScoreContent(f)
    IN [chunk_id |-> chunk_id,
        is_valid |-> validation.is_valid,
        score |-> validation.score,
        needs_regeneration |-> NeedsRegenerationFlag(validation)]

\* SelectiveChunkProcessor._identify_failed_chunk_ids
FailedIdsOf(validations) ==
    { validations[k].chunk_id :
        k \in { j \in 1..Len(validations) : validations[j].needs_regeneration } }

ValidatorInit ==
    /\ chunks = <<>>
    /\ max_retry_attempts = DefaultMaxRetryAttempts
    /\ pc = "validator_call"
    /\ task = <<>>
    /\ semaphore = SemaphoreWidth
    /\ gathered = <<>>
    /\ chunk_results = <<>>
    /\ attempt = 0
    /\ failed_chunk_ids = {}
    /\ failed_chunks = <<>>
    /\ retry_results = <<>>
    /\ retry_inflight = FALSE
    /\ retry_prompt = NoPrompt
    /\ round_calls = <<>>
    /\ total_calls = <<>>
    /\ last_outcome = <<>>
    /\ validation_passes = 0
    /\ results_validated = FALSE
    /\ merged_results = <<>>
    /\ content_tests \in ContentTests
    /\ validation_results = <<>>
    /\ ChunkerIdle
    /\ ClassifierIdle
    /\ FixerIdle
    /\ NodeIdle
    /\ ParserIdle
    /\ CallsIdle
    /\ GraphIdle

ValidatorCall ==
    /\ pc = "validator_call"
    /\ validation_results' = <<ChunkValidation(SectionId(1), content_tests)>>
    /\ failed_chunk_ids' = FailedIdsOf(validation_results')
    /\ pc' = "validator_returned"
    /\ UNCHANGED <<chunks, max_retry_attempts, task, semaphore, gathered,
                   chunk_results, attempt, failed_chunks, retry_results,
                   retry_inflight, retry_prompt, round_calls, total_calls, last_outcome,
                   validation_passes, results_validated, merged_results,
                   content_tests, chunkerVars, classifierVars, fixerVars, nodeVars, parserVars, calls, graph>>

ValidatorNext == ValidatorCall

ValidatorSpec == ValidatorInit /\ [][ValidatorNext]_vars

\* ------------------------------------------------- the chunker, on its own
\* Documents of at most MaxElements body elements with at most MaxChildren
\* children in all, split with max_chunk_size = ChunkSizeLimit units.
MaxElements == 2
MaxChildren == 3
ChunkSizeLimit == 4

\* Strings are sequences of pieces, each with a length in units (an opening
\* or closing tag is one unit long); the length of a string is the sum.
\* A parsed element has children of two kinds:
\*   "element"  a tag, or a text node without special characters: str(child)
\*              is the child's markup
\*   "comment"  a comment (or a text node with "&amp;", "&lt;"): bs4 keeps it
\*              as a NavigableString, whose str() is the bare text, without
\*              the comment markers (unescaped) that its markup has
\* Children of every kind pass the test hasattr(child, 'name').
ChildKinds == {"element", "comment"}
ChildLens == {1, 3, 5}
Children == [kind : ChildKinds, len : ChildLens]

\* the markup of a child inside str(element)
Markup(child) ==
    [piece |-> "node", kind |-> child.kind, form |-> "markup", len |-> child.len]

\* str(child)
Str(child) ==
    IF child.kind = "comment"
    THEN [piece |-> "node", kind |-> child.kind, form |-> "bare", len |-> child.len - 1]
    ELSE Markup(child)

RECURSIVE SumLen(_)
SumLen(pieces) ==
    IF pieces = <<>> THEN 0 ELSE Head(pieces).len + SumLen(Tail(pieces))

\* Length in units of an opening tag whose attributes are "long".
LongAttrsLen == 9

\* The opening tag as bs4 serializes it, and the closing tag.  An element's
\* attributes are "plain" (none, or values without '"' and '&'), "quoted"
\* (a value with '"' or '&', which bs4 writes escaped) or "long" (plain, and
\* so many that the opening tag alone is LongAttrsLen units long).
OpeningTagLen(element) == IF element.attrs = "long" THEN LongAttrsLen ELSE 1

OpeningTag(element) ==
    [piece |-> "open", tag |-> element.tag,
     form |-> IF element.attrs = "quoted" THEN "escaped" ELSE "plain",
     len |-> OpeningTagLen(element)]
ClosingTag(element) == [piece |-> "close", tag |-> element.tag, form |-> "plain", len |-> 1]

\* HTMLChunker._get_opening_tag: rebuilt from the name and the attribute values
GetOpeningTag(element) ==
    [piece |-> "open", tag |-> element.tag,
     form |-> IF element.attrs = "quoted" THEN "raw" ELSE "plain",
     len |-> OpeningTagLen(element)]

\* element.decode_contents() and str(element)
InnerContent(element) ==
    [j \in 1..Len(element.children) |-> Markup(element.children[j])]
StrElement(element) ==
    <<OpeningTag(element)>> \o InnerContent(element) \o <<ClosingTag(element)>>

SubSectionId(i, j) == <<"section", i, j>>

\* the HTMLChunk built in _split_large_element
PartChunkSameId(element, section_index, chunk_counter, current_chunk_content) ==
    LET chunk_content == <<GetOpeningTag(element)>> \o current_chunk_content
                           \o <<ClosingTag(element)>>
    IN [id |-> SectionId(section_index),
        content |-> chunk_content,
        chunk_type |-> [tag |-> element.tag, part |-> TRUE],
        size |-> SumLen(chunk_content),
        modifiable |-> ExtractElementMetadata(element.tag).modifiable]

PartChunk(element, section_index, chunk_counter, current_chunk_content) ==
    LET chunk_content == <<GetOpeningTag(element)>> \o current_chunk_content
                           \o <<ClosingTag(element)>>
    IN [id |-> SubSectionId(section_index, chunk_counter),
        content |-> chunk_content,
        chunk_type |-> [tag |-> element.tag, part |-> TRUE],
        size |-> SumLen(chunk_content),
        modifiable |-> ExtractElementMetadata(element.tag).modifiable]

\* HTMLChunker._split_large_element: the test that closes the current sub-chunk
MustFlushIgnoringWrapper(current_size, child_size, base_size, max_chunk_size, current_chunk_content) ==
    current_size + child_size > max_chunk_size /\ current_chunk_content # <<>>

MustFlushAlways(current_size, child_size, base_size, max_chunk_size, current_chunk_content) ==
    current_chunk_content # <<>>

MustFlush(current_size, child_size, base_size, max_chunk_size, current_chunk_content) ==
    current_size + child_size + base_size > max_chunk_size /\ current_chunk_content # <<>>

\* HTMLChunker._split_large_element: the loop over child_elements from child
\* k on, and the flush after it
RECURSIVE PackChildren(_, _, _, _, _, _, _, _)
PackChildren(element, section_index, max_chunk_size, k, current_chunk_content, current_size, chunk_counter, part_chunks) ==
    LET base_size == GetOpeningTag(element).len + ClosingTag(element).len
    IN IF k > Len(element.children)
       THEN IF current_chunk_content # <<>>
            THEN Append(part_chunks, PartChunk(element, section_index, chunk_counter,
                                               current_chunk_content))
            ELSE part_chunks
       ELSE LET child_str == Str(element.children[k])
                child_size == child_str.len
            IN IF MustFlush(current_size, child_size, base_size, max_chunk_size,
                            current_chunk_content)
               THEN PackChildren(element, section_index, max_chunk_size, k + 1,
                                 <<child_str>>, child_size, chunk_counter + 1,
                                 Append(part_chunks,
                                        PartChunk(element, section_index, chunk_counter,
                                                  current_chunk_content)))
               ELSE PackChildren(element, section_index, max_chunk_size, k + 1,
                                 Append(current_chunk_content, child_str),
                                 current_size + child_size, chunk_counter, part_chunks)

SplitLargeElement(element, section_index, max_chunk_size) ==
    PackChildren(element, section_index, max_chunk_size, 1, <<>>, 0, 0, <<>>)

\* HTMLChunker.STRUCTURAL_TAGS
StructuralTags == <<"header", "nav", "main", "section", "article", "aside", "footer">>

\* body.find_all(tag, recursive=False)
RECURSIVE FindAll(_, _)
FindAll(body, tag) ==
    IF body = <<>> THEN <<>>
    ELSE (IF Head(body).tag = tag THEN <<Head(body)>> ELSE <<>>) \o FindAll(Tail(body), tag)

\* HTMLChunker._find_structural_elements
RECURSIVE FindByTags(_, _)
FindByTags(body, tags) ==
    IF tags = <<>> THEN <<>>
    ELSE FindAll(body, Head(tags)) \o FindByTags(body, Tail(tags))

FindStructuralElementsAll(body) ==
    LET structural_elements == FindByTags(body, StructuralTags)
    IN IF structural_elements = <<>>
       THEN body
       ELSE structural_elements

FindStructuralElements(body) ==
    LET structural_elements == FindByTags(body, StructuralTags)
    IN IF structural_elements = <<>>
       THEN SubSeq(body, 1, IF Len(body) < 10 THEN Len(body) ELSE 10)
       ELSE structural_elements

\* HTMLChunker._create_head_chunk, from the parsed document
HeadContent(doc) ==
    IF doc.has_head
    THEN <<[piece |-> "head", kind |-> "head", form |-> "markup", len |-> 3]>>
    ELSE <<[piece |-> "head", kind |-> "head", form |-> "default", len |-> 2]>>

HeadChunk(doc) ==
    [id |-> HeadId, content |-> HeadContent(doc),
     chunk_type |-> [tag |-> "head", part |-> FALSE],
     size |-> SumLen(HeadContent(doc)), modifiable |-> FALSE]

\* HTMLChunker._split_body_content: the loop from element k on (i = k - 1)
RECURSIVE SplitElements(_, _, _)
SplitElements(structural_elements, k, max_chunk_size) ==
    IF k > Len(structural_elements) THEN <<>>
    ELSE LET element == structural_elements[k]
             chunk_content == StrElement(element)
             here == IF SumLen(chunk_content) > max_chunk_size
                     THEN SplitLargeElement(element, k - 1, max_chunk_size)
                     ELSE <<[id |-> SectionId(k - 1), content |-> chunk_content,
                             chunk_type |-> [tag |-> element.tag, part |-> FALSE],
                             size |-> SumLen(chunk_content),
                             modifiable |-> ExtractElementMetadata(element.tag).modifiable]>>
         IN here \o SplitElements(structural_elements, k + 1, max_chunk_size)

SplitBodyContent(doc, max_chunk_size) ==
    IF ~doc.has_body THEN <<>>
    ELSE SplitElements(FindStructuralElements(doc.body), 1, max_chunk_size)

\* HTMLChunker.split_html (css_content = "": no css selectors are attached)
SplitHtml(doc, max_chunk_size) ==
    <<HeadChunk(doc)>> \o SplitBodyContent(doc, max_chunk_size)

Literal(text) == [piece |-> "literal", kind |-> text, form |-> "plain", len |-> 1]

RECURSIVE JoinContents(_)
JoinContents(results) ==
    IF results = <<>> THEN <<>>
    ELSE Head(results).processed_content \o JoinContents(Tail(results))

RECURSIVE SelectResults(_, _)
SelectResults(results, isHead) ==
    IF results = <<>> THEN <<>>
    ELSE (IF (Head(results).chunk_id = HeadId) = isHead THEN <<Head(results)>> ELSE <<>>)
         \o SelectResults(Tail(results), isHead)

\* HTMLChunker.reconstruct_html
ReconstructHtmlAllInBody(processed_chunks, original_doctype) ==
    IF processed_chunks = <<>> THEN <<>>
    ELSE <<Literal(IF original_doctype = "" THEN "<!DOCTYPE html>" ELSE original_doctype),
           Literal("<html>")>>
         \o SelectResults(processed_chunks, TRUE)[1].processed_content
         \o <<Literal("<body>")>>
         \o JoinContents(processed_chunks)
         \o <<Literal("</body></html>")>>

ReconstructHtml(processed_chunks, original_doctype) ==
    IF processed_chunks = <<>> THEN <<>>
    ELSE LET heads == SelectResults(processed_chunks, TRUE)
             body_chunks == SelectResults(processed_chunks, FALSE)
             head_content == IF heads # <<>> THEN heads[1].processed_content
                             ELSE <<[piece |-> "head", kind |-> "head",
                                     form |-> "default", len |-> 2]>>
         IN <<Literal(IF original_doctype = "" THEN "<!DOCTYPE html>"
                      ELSE original_doctype),
              Literal("<html>")>>
            \o head_content
            \o <<Literal("<body>")>>
            \o JoinContents(body_chunks)
            \o <<Literal("</body></html>")>>

\* The elements with n children, and the bodies of at most maxElements
\* elements with at most maxChildren children in all; the elements of one
\* document carry the same kind of attributes.
ElementsWith(n, attrs) ==
    { [tag |-> "main", attrs |-> attrs, children |-> c] : c \in [1..n -> Children] }

RECURSIVE BodiesOf(_, _, _)
BodiesOf(maxElements, maxChildren, attrs) ==
    IF maxElements = 0 THEN { <<>> }
    ELSE { <<>> } \cup
         UNION { { <<e>> \o rest : e \in ElementsWith(n, attrs),
                                   rest \in BodiesOf(maxElements - 1, maxChildren - n, attrs) }
                 : n \in 0..maxChildren }

ChunkerDocuments(maxElements, maxChildren) ==
    { [has_head |-> h, has_body |-> TRUE, body |-> b] :
        h \in BOOLEAN,
        b \in BodiesOf(maxElements, maxChildren, "plain")
                \cup BodiesOf(maxElements, maxChildren, "quoted") }
    \cup { [has_head |-> h, has_body |-> FALSE, body |-> <<>>] : h \in BOOLEAN }

OriginalDoctypes == {"", "<!DOCTYPE html PUBLIC>"}

ChunkerInit ==
    /\ chunks = <<>>
    /\ max_retry_attempts = DefaultMaxRetryAttempts
    /\ pc = "split_call"
    /\ task = <<>>
    /\ semaphore = SemaphoreWidth
    /\ gathered = <<>>
    /\ chunk_results = <<>>
    /\ attempt = 0
    /\ failed_chunk_ids = {}
    /\ failed_chunks = <<>>
    /\ retry_results = <<>>
    /\ retry_inflight = FALSE
    /\ retry_prompt = NoPrompt
    /\ round_calls = <<>>
    /\ total_calls = <<>>
    /\ last_outcome = <<>>
    /\ validation_passes = 0
    /\ results_validated = FALSE
    /\ merged_results = <<>>
    /\ ValidatorIdle
    /\ document \in ChunkerDocuments(MaxElements, MaxChildren)
    /\ html_chunks = <<>>
    /\ reconstructed = <<>>
    /\ ClassifierIdle
    /\ FixerIdle
    /\ NodeIdle
    /\ ParserIdle
    /\ CallsIdle
    /\ GraphIdle

\* split_html(document) with max_chunk_size = ChunkSizeLimit
SplitCall ==
    /\ pc = "split_call"
    /\ html_chunks' = SplitHtml(document, ChunkSizeLimit)
    /\ pc' = "split_returned"
    /\ UNCHANGED <<chunks, max_retry_attempts, task, semaphore, gathered,
                   chunk_results, attempt, failed_chunk_ids, failed_chunks,
                   retry_results, retry_inflight, retry_prompt, round_calls, total_calls,
                   last_outcome, validation_passes, results_validated,
                   merged_results, validatorVars, document, reconstructed,
                   classifierVars, fixerVars, nodeVars, parserVars, calls, graph>>

\* every chunk is passed through unchanged and reconstruct_html is called
ReconstructCall(original_doctype) ==
    /\ pc = "split_returned"
    /\ chunk_results' = [k \in 1..Len(html_chunks) |-> CreateUnmodifiedResult(html_chunks[k])]
    /\ reconstructed' = ReconstructHtml(chunk_results', original_doctype)
    /\ pc' = "reconstruct_returned"
    /\ UNCHANGED <<chunks, max_retry_attempts, task, semaphore, gathered,
                   attempt, failed_chunk_ids, failed_chunks,
                   retry_results, retry_inflight, retry_prompt, round_calls, total_calls,
                   last_outcome, validation_passes, results_validated,
                   merged_results, validatorVars, document, html_chunks,
                   classifierVars, fixerVars, nodeVars, parserVars, calls, graph>>

ChunkerNext ==
    \/ SplitCall
    \/ \E d \in OriginalDoctypes : ReconstructCall(d)

ChunkerSpec == ChunkerInit /\ [][ChunkerNext]_vars

\* ------------------------------------------- the validation error analyzer
\* A whole document, as the analyzer and the fixers read it:
\*   heading    the text of an element that _BRAND_SELECTORS select (h1)
\*   paragraph  a text outside those selectors
\*   email      the text of an a/span/div/p element holding an email address
\*   phone      the text of an a/span/div/p element holding a phone number
\*   address    the text of an element of class address
\*   products   the items of a product list of three items
\*   language   which text the document carries: its own or an LLM's answer
\*   markup     as written by its author, or as BeautifulSoup serializes it
\* Brand texts: the generic brand as _GENERIC_BRANDS spells it, the same in
\* capitals, and the brand name of the spec.
GenericBrand == "Lumina Jewelry"
SpecBrand == "Aurum"
BrandTexts == {"Lumina Jewelry", "LUMINA JEWELRY", "Lumina J&#101;welry", "Aurum"}

\* str.lower()
Lower(text) ==
    CASE text = "Lumina Jewelry" -> "lumina jewelry"
      [] text = "LUMINA JEWELRY" -> "lumina jewelry"
      [] text = "Lumina J&#101;welry" -> "lumina j&#101;welry"
      [] text = "Aurum" -> "aurum"
      [] OTHER -> text

\* An error string, as the set of its words; a word holds one of the
\* analyzer's keywords, in small letters or with capitals, or none ("other").
Keywords == {"brand", "contact", "email", "phone", "product", "address",
             "language", "russian", "english"}
Words == [text : Keywords \cup {"other"}, upper : BOOLEAN]
LowerWords(error) == { [text |-> w.text, upper |-> FALSE] : w \in error }
Contains(error_lower, keyword) == [text |-> keyword, upper |-> FALSE] \in error_lower

\* "Brand mismatch: found Lumina Jewelry"
BrandMismatchError ==
    { [text |-> "brand", upper |-> TRUE], [text |-> "other", upper |-> FALSE],
      [text |-> "other", upper |-> TRUE] }

NoIssue == [issue_type |-> "none", severity |-> "none", description |-> {},
            search_patterns |-> {}]

\* ValidationAnalyzer._create_brand_issue: found_brands
FoundBrands(html_content) ==
    IF Lower(GenericBrand) \in {Lower(html_content.heading), Lower(html_content.paragraph)}
    THEN {GenericBrand} ELSE {}

\* ValidationAnalyzer._create_*_issue
CreateBrandIssue(error, html_content) ==
    [issue_type |-> "brand_mismatch", severity |-> "critical", description |-> error,
     search_patterns |-> FoundBrands(html_content)]
CreateContactIssue(error, html_content) ==
    [issue_type |-> "contact_mismatch", severity |-> "major", description |-> error,
     search_patterns |-> {"email regex", "phone regex"}]
CreateAddressIssue(error, html_content) ==
    [issue_type |-> "address_mismatch", severity |-> "major", description |-> error,
     search_patterns |-> {"address", "location"}]
CreateProductIssue(error, html_content) ==
    [issue_type |-> "product_mismatch", severity |-> "minor", description |-> error,
     search_patterns |-> {"generic product", "sample item"}]
CreateLanguageIssue(error, html_content) ==
    [issue_type |-> "language_mismatch", severity |-> "major", description |-> error,
     search_patterns |-> {"English text patterns"}]

\* ValidationAnalyzer.__init__: self._error_handlers, in insertion order
ErrorHandlers ==
    << <<"brand", "brand">>, <<"contact", "contact">>, <<"email", "contact">>,
       <<"phone", "contact">>, <<"product", "product">>, <<"address", "address">>,
       <<"language", "language">>, <<"russian", "language">>, <<"english", "language">> >>

Handle(handler, error, html_content) ==
    CASE handler = "brand" -> CreateBrandIssue(error, html_content)
      [] handler = "contact" -> CreateContactIssue(error, html_content)
      [] handler = "product" -> CreateProductIssue(error, html_content)
      [] handler = "address" -> CreateAddressIssue(error, html_content)
      [] handler = "language" -> CreateLanguageIssue(error, html_content)

\* ValidationAnalyzer._categorize_and_create_issue: the loop from handler k on
RECURSIVE FirstHandler(_, _, _)
FirstHandler(error, html_content, k) ==
    IF k > Len(ErrorHandlers) THEN NoIssue
    ELSE IF Contains(LowerWords(error), ErrorHandlers[k][1])
         THEN Handle(ErrorHandlers[k][2], error, html_content)
         ELSE FirstHandler(error, html_content, k + 1)

CategorizeAndCreateIssue(error, html_content) == FirstHandler(error, html_content, 1)

\* ValidationAnalyzer.analyze_validation_errors
RECURSIVE AnalyzeValidationErrors(_, _)
AnalyzeValidationErrors(errors, html_content) ==
    IF errors = <<>> THEN <<>>
    ELSE LET issue == CategorizeAndCreateIssue(Head(errors), html_content)
         IN (IF issue # NoIssue THEN <<issue>> ELSE <<>>)
            \o AnalyzeValidationErrors(Tail(errors), html_content)

\* the href attribute of an element: scheme:target, or no attribute
Href(scheme, target) == [scheme |-> scheme, target |-> target]
NoHref == Href("", "")

\* A document whose contact data, address, products and language have not
\* been fixed yet, with the given brand texts.
StaleDocument(heading, paragraph) ==
    [heading |-> heading, paragraph |-> paragraph,
     email |-> "sales@old-shop.ru", phone |-> "+7 900 000-00-00",
     email_tag |-> "a", email_href |-> Href("mailto", "sales@old-shop.ru"),
     phone_tag |-> "a", phone_href |-> Href("tel", "+7 900 000-00-00"),
     address |-> "old address",
     products |-> "sample items", language |-> "source", markup |-> "written"]

\* One call of _categorize_and_create_issue, on any error string of at most
\* MaxErrorWords different words.
MaxErrorWords == 2

ErrorStrings(maxWords) == { e \in SUBSET Words : Cardinality(e) <= maxWords }

ClassifierInit ==
    /\ chunks = <<>>
    /\ max_retry_attempts = DefaultMaxRetryAttempts
    /\ pc = "classify_call"
    /\ task = <<>>
    /\ semaphore = SemaphoreWidth
    /\ gathered = <<>>
    /\ chunk_results = <<>>
    /\ attempt = 0
    /\ failed_chunk_ids = {}
    /\ failed_chunks = <<>>
    /\ retry_results = <<>>
    /\ retry_inflight = FALSE
    /\ retry_prompt = NoPrompt
    /\ round_calls = <<>>
    /\ total_calls = <<>>
    /\ last_outcome = <<>>
    /\ validation_passes = 0
    /\ results_validated = FALSE
    /\ merged_results = <<>>
    /\ ValidatorIdle
    /\ ChunkerIdle
    /\ validation_error \in ErrorStrings(MaxErrorWords)
    /\ classified_issue = <<>>
    /\ final_html \in { StaleDocument(h, h) : h \in BrandTexts }
    /\ FixerIdle
    /\ NodeIdle
    /\ ParserIdle
    /\ CallsIdle
    /\ GraphIdle

ClassifyCall ==
    /\ pc = "classify_call"
    /\ classified_issue' = CategorizeAndCreateIssue(validation_error, final_html)
    /\ pc' = "classify_returned"
    /\ UNCHANGED <<chunks, max_retry_attempts, task, semaphore, gathered,
                   chunk_results, attempt, failed_chunk_ids, failed_chunks,
                   retry_results, retry_inflight, retry_prompt, round_calls, total_calls,
                   last_outcome, validation_passes, results_validated,
                   merged_results, validatorVars, chunkerVars,
                   validation_error, final_html, fixerVars, nodeVars, parserVars, calls, graph>>

ClassifierNext == ClassifyCall

ClassifierSpec == ClassifierInit /\ [][ClassifierNext]_vars

\* --------------------------------------------------------------- the fixers
SpecEmail == "info@aurum.ru"
SpecPhone == "+7 495 111-22-33"
SpecAddress == "the spec's address"
SpecProducts == "the spec's products"

\* BeautifulSoup(html, 'html.parser'): a character reference in a text becomes
\* the character it names
CharrefDecoded(text) ==
    IF text = "Lumina J&#101;welry" THEN "Lumina Jewelry" ELSE text
BeautifulSoup(html_content) ==
    [html_content EXCEPT !.heading = CharrefDecoded(@), !.paragraph = CharrefDecoded(@)]

\* str(soup): the texts are written with the characters themselves, only
\* &, < and > as references
StrSoup(soup) == [soup EXCEPT !.markup = "serialized"]

\* re.sub(re.escape(old_brand), spec.brand_name, text, flags=re.IGNORECASE)
ReSub(old_brand, text) ==
    IF Lower(text) = Lower(old_brand) THEN SpecBrand ELSE text

\* BrandFixer.fix: the replacements of every search pattern that occurs, as
\* written, in the document; then the texts of the elements the brand
\* selectors select that hold a pattern in any letter case; then str(soup).
BrandFixerFix(html_content, issue, spec) ==
    LET occurs == GenericBrand \in issue.search_patterns
                    /\ GenericBrand \in {html_content.heading, html_content.paragraph}
        replaced == IF occurs
                      THEN [html_content EXCEPT
                              !.heading = ReSub(GenericBrand, @),
                              !.paragraph = ReSub(GenericBrand, @)]
                      ELSE html_content
        soup == BeautifulSoup(replaced)
        selected == \E pattern \in issue.search_patterns :
                        Lower(pattern) = Lower(soup.heading)
    IN StrSoup([soup EXCEPT !.heading = IF selected THEN SpecBrand ELSE @])

\* ContactFixer.fix: _fix_email_elements, _fix_phone_elements, str(soup)
\* 'example.com' not in element.string
FixesEmail(email) == email # "test@example.com"

ContactFixerFix(html_content, issue, spec) ==
    StrSoup([BeautifulSoup(html_content) EXCEPT
               !.email = IF FixesEmail(@) THEN SpecEmail ELSE @,
               !.email_href = IF FixesEmail(html_content.email) /\ html_content.email_tag = "a"
                              THEN Href("mailto", SpecEmail) ELSE @,
               !.phone = SpecPhone,
               !.phone_href = IF html_content.phone_tag = "a"
                              THEN Href("tel", SpecPhone) ELSE @])

\* AddressFixer.fix
AddressFixerFix(html_content, issue, spec) ==
    StrSoup([BeautifulSoup(html_content) EXCEPT !.address = SpecAddress])

\* ProductFixer.fix
ProductFixerFix(html_content, issue, spec) ==
    IF ~spec.has_products THEN html_content
    ELSE StrSoup([BeautifulSoup(html_content) EXCEPT !.products = SpecProducts])

\* LLMFixer._fix_language_issues: len(result.strip()) > 1000
MinLength == 1000

\* What the chain's one call gives: a text of MinLength + 1 characters
\* ("answer_a"), a longer one between blanks ("answer_b"), a text of exactly
\* MinLength characters between two blanks ("short"), the empty text, or an
\* exception inside _fix_language_issues ("llm_error").
LLMAnswers == {"answer_a", "answer_b", "short", "", "llm_error"}

\* len(result)
ResultLen(result) ==
    CASE result = "answer_a" -> MinLength + 1
      [] result = "answer_b" -> MinLength + 5
      [] result = "short" -> MinLength + 2
      [] OTHER -> 0

\* len(result.strip())
StrippedLen(result) ==
    CASE result = "answer_b" -> ResultLen(result) - 2
      [] result = "short" -> ResultLen(result) - 2
      [] OTHER -> ResultLen(result)

\* if result and len(result.strip()) > 1000
AcceptsUntrimmed(result) == result # "" /\ ResultLen(result) > MinLength
Accepts(result) == result # "" /\ StrippedLen(result) > MinLength

\* LLMFixer.fix
LLMFixerFix(html_content, issue, spec, answer) ==
    IF issue.issue_type # "language_mismatch" THEN html_content
    ELSE IF answer # "llm_error" /\ Accepts(answer)
    THEN [html_content EXCEPT !.language = answer, !.markup = "written"]
    ELSE html_content

\* FixerFactory.get_fixer(issue.issue_type).fix(html_content, issue, spec)
FixerFix(html_content, issue, spec, answer) ==
    CASE issue.issue_type = "brand_mismatch" -> BrandFixerFix(html_content, issue, spec)
      [] issue.issue_type = "contact_mismatch" -> ContactFixerFix(html_content, issue, spec)
      [] issue.issue_type = "address_mismatch" -> AddressFixerFix(html_content, issue, spec)
      [] issue.issue_type = "product_mismatch" -> ProductFixerFix(html_content, issue, spec)
      [] issue.issue_type = "language_mismatch" -> LLMFixerFix(html_content, issue, spec, answer)
      [] OTHER -> BrandFixerFix(html_content, issue, spec)

\* The letters of the enum values, a = 1 .. z = 26 and '_' = 0 (below the
\* letters, as in Unicode), for the comparison of strings in sorted().
Mismatch == <<0, 13, 9, 19, 13, 1, 20, 3, 8>>
Letters(value) ==
    CASE value = "critical" -> <<3, 18, 9, 20, 9, 3, 1, 12>>
      [] value = "major" -> <<13, 1, 10, 15, 18>>
      [] value = "minor" -> <<13, 9, 14, 15, 18>>
      [] value = "brand_mismatch" -> <<2, 18, 1, 14, 4>> \o Mismatch
      [] value = "contact_mismatch" -> <<3, 15, 14, 20, 1, 3, 20>> \o Mismatch
      [] value = "address_mismatch" -> <<1, 4, 4, 18, 5, 19, 19>> \o Mismatch
      [] value = "product_mismatch" -> <<16, 18, 15, 4, 21, 3, 20>> \o Mismatch
      [] value = "language_mismatch" -> <<12, 1, 14, 7, 21, 1, 7, 5>> \o Mismatch

\* str.__lt__
RECURSIVE LettersLess(_, _)
LettersLess(a, b) ==
    IF b = <<>> THEN FALSE
    ELSE IF a = <<>> THEN TRUE
    ELSE IF Head(a) # Head(b) THEN Head(a) < Head(b)
    ELSE LettersLess(Tail(a), Tail(b))

StrLess(a, b) == LettersLess(Letters(a), Letters(b))

\* the sort key (x.severity.value, x.issue_type.value), compared as tuples
KeyLessByTypeOnly(x, y) == StrLess(x.issue_type, y.issue_type)
KeyLess(x, y) ==
    \/ StrLess(x.severity, y.severity)
    \/ x.severity = y.severity /\ StrLess(x.issue_type, y.issue_type)

\* sorted(issues, key=...): stable, an issue goes behind those not greater
RECURSIVE InsertSorted(_, _)
InsertSorted(x, sorted) ==
    IF sorted = <<>> THEN <<x>>
    ELSE IF KeyLess(x, Head(sorted)) THEN <<x>> \o sorted
    ELSE <<Head(sorted)>> \o InsertSorted(x, Tail(sorted))

RECURSIVE SortedFrom(_, _, _)
SortedFrom(issueSeq, k, sorted) ==
    IF k > Len(issueSeq) THEN sorted
    ELSE SortedFrom(issueSeq, k + 1, InsertSorted(issueSeq[k], sorted))

SortedIssues(issueSeq) == SortedFrom(issueSeq, 1, <<>>)

\* ------------------------------------------------- the targeted fixing pass
\* The error strings of final_validation.errors: one for each issue type and
\* one the analyzer has no keyword for.
ContactError == { [text |-> "contact", upper |-> TRUE], [text |-> "other", upper |-> FALSE] }
AddressError == { [text |-> "address", upper |-> TRUE], [text |-> "other", upper |-> FALSE] }
ProductError == { [text |-> "product", upper |-> TRUE], [text |-> "other", upper |-> FALSE] }
LanguageError == { [text |-> "language", upper |-> TRUE], [text |-> "other", upper |-> FALSE] }
UnknownError == { [text |-> "other", upper |-> TRUE] }
FixerErrors == {BrandMismatchError, ContactError, AddressError, ProductError,
                LanguageError, UnknownError}

MaxErrors == 2

ErrorLists(maxErrors) == UNION { [1..n -> FixerErrors] : n \in 0..maxErrors }

\* the except clause of the loop: the loop goes on with the next issue
AfterExceptAbort(index, total) == total + 1
AfterExcept(index, total) == index + 1

FixerInit ==
    /\ chunks = <<>>
    /\ max_retry_attempts = DefaultMaxRetryAttempts
    /\ pc = "analyze_call"
    /\ task = <<>>
    /\ semaphore = SemaphoreWidth
    /\ gathered = <<>>
    /\ chunk_results = <<>>
    /\ attempt = 0
    /\ failed_chunk_ids = {}
    /\ failed_chunks = <<>>
    /\ retry_results = <<>>
    /\ retry_inflight = FALSE
    /\ retry_prompt = NoPrompt
    /\ round_calls = <<>>
    /\ total_calls = <<>>
    /\ last_outcome = <<>>
    /\ validation_passes = 0
    /\ results_validated = FALSE
    /\ merged_results = <<>>
    /\ ValidatorIdle
    /\ ChunkerIdle
    /\ validation_error = {}
    /\ classified_issue = <<>>
    /\ final_html \in { StaleDocument(h, p) : h \in BrandTexts, p \in BrandTexts }
    /\ validation_errors \in ErrorLists(MaxErrors)
    /\ page_spec \in [has_products : BOOLEAN]
    /\ issues = <<>>
    /\ sorted_issues = <<>>
    /\ issue_index = 0
    /\ fixed_html = <<>>
    /\ fix_log = <<>>
    /\ fix_pass = 0
    /\ first_fixed_html = <<>>
    /\ NodeIdle
    /\ ParserIdle
    /\ CallsIdle
    /\ GraphIdle

\* TargetedFixingNode.targeted_fixing_node: the analyzer's call, and the
\* return when it finds no issue
AnalyzeCall ==
    /\ pc = "analyze_call"
    /\ issues' = AnalyzeValidationErrors(validation_errors, final_html)
    /\ pc' = IF issues' = <<>> THEN "no_fixable_issues" ELSE "apply_call"
    /\ UNCHANGED <<chunks, max_retry_attempts, task, semaphore, gathered,
                   chunk_results, attempt, failed_chunk_ids, failed_chunks,
                   retry_results, retry_inflight, retry_prompt, round_calls, total_calls,
                   last_outcome, validation_passes, results_validated,
                   merged_results, validatorVars, chunkerVars, classifierVars,
                   nodeVars, parserVars, calls, graph,
                   validation_errors, page_spec, sorted_issues, issue_index,
                   fixed_html, fix_log, fix_pass, first_fixed_html>>

\* apply_targeted_fixes(final_html, issues, spec), up to the loop
ApplyStart ==
    /\ pc = "apply_call"
    /\ fixed_html' = final_html
    /\ sorted_issues' = SortedIssues(issues)
    /\ issue_index' = 1
    /\ fix_pass' = 1
    /\ pc' = "apply_loop"
    /\ UNCHANGED <<chunks, max_retry_attempts, task, semaphore, gathered,
                   chunk_results, attempt, failed_chunk_ids, failed_chunks,
                   retry_results, retry_inflight, retry_prompt, round_calls, total_calls,
                   last_outcome, validation_passes, results_validated,
                   merged_results, validatorVars, chunkerVars, classifierVars,
                   nodeVars, parserVars, calls, graph,
                   validation_errors, page_spec, issues, fix_log,
                   first_fixed_html>>

\* one turn of the loop: the fixer of the issue returns
FixerReturns(answer) ==
    /\ pc = "apply_loop"
    /\ issue_index <= Len(sorted_issues)
    /\ LET issue == sorted_issues[issue_index]
       IN /\ issue.issue_type # "language_mismatch" => answer = ""
          /\ fixed_html' = FixerFix(fixed_html, issue, page_spec, answer)
          /\ fix_log' = Append(fix_log, [issue |-> issue, outcome |-> "returned",
                                         fix_pass |-> fix_pass, answer |-> answer,
                                         before |-> fixed_html, after |-> fixed_html'])
    /\ issue_index' = issue_index + 1
    /\ UNCHANGED <<chunks, max_retry_attempts, pc, task, semaphore, gathered,
                   chunk_results, attempt, failed_chunk_ids, failed_chunks,
                   retry_results, retry_inflight, retry_prompt, round_calls, total_calls,
                   last_outcome, validation_passes, results_validated,
                   merged_results, validatorVars, chunkerVars, classifierVars,
                   nodeVars, parserVars, calls, graph,
                   validation_errors, page_spec, issues, sorted_issues, fix_pass,
                   first_fixed_html>>

\* one turn of the loop: the fixer of the issue raises an Exception
FixerRaises ==
    /\ pc = "apply_loop"
    /\ issue_index <= Len(sorted_issues)
    /\ fix_log' = Append(fix_log, [issue |-> sorted_issues[issue_index],
                                   outcome |-> "raised", fix_pass |-> fix_pass,
                                   answer |-> "",
                                   before |-> fixed_html, after |-> fixed_html])
    /\ issue_index' = AfterExcept(issue_index, Len(sorted_issues))
    /\ UNCHANGED <<chunks, max_retry_attempts, pc, task, semaphore, gathered,
                   chunk_results, attempt, failed_chunk_ids, failed_chunks,
                   retry_results, retry_inflight, retry_prompt, round_calls, total_calls,
                   last_outcome, validation_passes, results_validated,
                   merged_results, validatorVars, chunkerVars, classifierVars,
                   nodeVars, parserVars, calls, graph,
                   validation_errors, page_spec, issues, sorted_issues,
                   fixed_html, fix_pass, first_fixed_html>>

\* the loop is over: return fixed_html
ApplyReturn ==
    /\ pc = "apply_loop"
    /\ issue_index > Len(sorted_issues)
    /\ pc' = "apply_returned"
    /\ first_fixed_html' = IF fix_pass = 1 THEN fixed_html ELSE first_fixed_html
    /\ UNCHANGED <<chunks, max_retry_attempts, task, semaphore, gathered,
                   chunk_results, attempt, failed_chunk_ids, failed_chunks,
                   retry_results, retry_inflight, retry_prompt, round_calls, total_calls,
                   last_outcome, validation_passes, results_validated,
                   merged_results, validatorVars, chunkerVars, classifierVars,
                   nodeVars, parserVars, calls, graph,
                   validation_errors, page_spec, issues, sorted_issues,
                   issue_index, fixed_html, fix_log, fix_pass>>

FixerNext ==
    \/ AnalyzeCall
    \/ ApplyStart
    \/ \E answer \in LLMAnswers : FixerReturns(answer)
    \/ FixerRaises
    \/ ApplyReturn

FixerSpec == FixerInit /\ [][FixerNext]_vars

\* apply_targeted_fixes(fixed_html, issues, spec): a second call, on what the
\* first call returned, with the same issues and spec
ApplyAgain ==
    /\ pc = "apply_returned"
    /\ fix_pass = 1
    /\ sorted_issues' = SortedIssues(issues)
    /\ issue_index' = 1
    /\ fix_pass' = 2
    /\ pc' = "apply_loop"
    /\ UNCHANGED <<chunks, max_retry_attempts, task, semaphore, gathered,
                   chunk_results, attempt, failed_chunk_ids, failed_chunks,
                   retry_results, retry_inflight, retry_prompt, round_calls, total_calls,
                   last_outcome, validation_passes, results_validated,
                   merged_results, validatorVars, chunkerVars, classifierVars,
                   nodeVars, parserVars, calls, graph,
                   validation_errors, page_spec, issues, fixed_html, fix_log,
                   first_fixed_html>>

FixerTwiceNext ==
    \/ FixerNext
    \/ ApplyAgain

FixerTwiceSpec == FixerInit /\ [][FixerTwiceNext]_vars

\* ---------------------------------------------- chunked_modification_node
\* The doctype lines a template begins with; a template may have none.
DoctypeLines == {"<!DOCTYPE html>", "<!doctype html>",
                 "<!DOCTYPE html PUBLIC>", "<!doctype html public>"}

\* re.sub(r'<!DOCTYPE[^>]*>', '', html, count=1): the expression is matched
\* with the letters as written
MatchesDoctypePattern(line) == line \in {"<!DOCTYPE html>", "<!DOCTYPE html PUBLIC>"}

RECURSIVE RemoveFirstDoctype(_)
RemoveFirstDoctype(lines) ==
    IF lines = <<>> THEN <<>>
    ELSE IF MatchesDoctypePattern(Head(lines)) THEN Tail(lines)
    ELSE <<Head(lines)>> \o RemoveFirstDoctype(Tail(lines))

\* html.strip().lower().startswith("<!doctype html>")
StartsWithHtml5Doctype(lines) ==
    lines # <<>> /\ Head(lines) \in {"<!DOCTYPE html>", "<!doctype html>"}

\* AdvancedHTMLFixer._preprocess_html, on the lines in front of <html>
PreprocessHtml(lines) ==
    LET html == RemoveFirstDoctype(lines)
    IN IF StartsWithHtml5Doctype(html) THEN html ELSE <<"<!DOCTYPE html>">> \o html

\* self.html_fixer._preprocess_html(original_html).split('\n', 1)[0]
DoctypeOf(lines) == Head(PreprocessHtml(lines))

\* str(soup) of a parsed doctype line: "<!DOCTYPE " and what followed the
\* word doctype in the declaration
DoctypeOutput(line) ==
    CASE line = "<!doctype html>" -> "<!DOCTYPE html>"
      [] line = "<!doctype html public>" -> "<!DOCTYPE html public>"
      [] OTHER -> line

\* The values of final_html: the template's html as it came, the document
\* fix_html_structure returned, its minimal valid html, or the empty text.
OriginalHtml(template) ==
    [source |-> "original_html", doctypes |-> template.doctypes, content |-> <<>>]
EmptyHtml == [source |-> "", doctypes |-> <<>>, content |-> <<>>]
MinimalValidHtml ==
    [source |-> "minimal_valid_html", doctypes |-> <<"<!DOCTYPE html>">>, content |-> <<>>]

\* AdvancedHTMLFixer.fix_html_structure when nothing fails in it: the doctype
\* lines of the result; the fixes inside head and body are not looked at, the
\* content is carried as reconstruct_html wrote it.
FixHtmlStructure(reconstructed_html) ==
    LET lines == PreprocessHtml(<<reconstructed_html[1].kind>>)
    IN [source |-> "fixed_html",
        doctypes |-> [k \in 1..Len(lines) |-> DoctypeOutput(lines[k])],
        content |-> Tail(reconstructed_html)]

\* the except branch and the two early returns: final_html and the message
FallbackHtmlEmpty(template) == EmptyHtml
FallbackHtml(template) == IF template.present THEN OriginalHtml(template) ELSE EmptyHtml

ErrorMessage == [type |-> "error", step |-> "template_modification"]
InfoMessage == [type |-> "info", step |-> "template_modification"]

MaxNodeElements == 1
MaxNodeChildren == 1

NodeTemplates(maxElements, maxChildren) ==
    { [present |-> TRUE, doctypes |-> d, has_head |-> doc.has_head,
       has_body |-> doc.has_body, body |-> doc.body] :
        d \in { <<>> } \cup { <<line>> : line \in DoctypeLines },
        doc \in ChunkerDocuments(maxElements, maxChildren) }
    \cup { [present |-> FALSE] }

\* what chunked_modification_node leaves alone
nodeFrame == <<chunks, max_retry_attempts, task, semaphore, gathered, attempt,
               failed_chunk_ids, failed_chunks, retry_results, retry_inflight,
               retry_prompt, round_calls, total_calls, last_outcome,
               validation_passes, results_validated, merged_results,
               validatorVars, document, validation_error, classified_issue,
               fixerVars, selected_template, generated_content, parserVars, calls, graph>>

NodeInit ==
    /\ chunks = <<>>
    /\ max_retry_attempts = DefaultMaxRetryAttempts
    /\ pc = "node_call"
    /\ task = <<>>
    /\ semaphore = SemaphoreWidth
    /\ gathered = <<>>
    /\ chunk_results = <<>>
    /\ attempt = 0
    /\ failed_chunk_ids = {}
    /\ failed_chunks = <<>>
    /\ retry_results = <<>>
    /\ retry_inflight = FALSE
    /\ retry_prompt = NoPrompt
    /\ round_calls = <<>>
    /\ total_calls = <<>>
    /\ last_outcome = <<>>
    /\ validation_passes = 0
    /\ results_validated = FALSE
    /\ merged_results = <<>>
    /\ ValidatorIdle
    /\ ChunkerIdle
    /\ validation_error = {}
    /\ classified_issue = <<>>
    /\ final_html = EmptyHtml
    /\ FixerIdle
    /\ selected_template \in NodeTemplates(MaxNodeElements, MaxNodeChildren)
    /\ generated_content \in BOOLEAN
    /\ doctype = ""
    /\ messages = <<>>
    /\ ParserIdle
    /\ CallsIdle
    /\ GraphIdle

\* the return of the except branch and of the two early returns
NodeFallsBack ==
    /\ final_html' = FallbackHtml(selected_template)
    /\ messages' = Append(messages, ErrorMessage)
    /\ pc' = "node_returned"

\* if not selected_template or not generated_content: return
NodeEnter ==
    /\ pc = "node_call"
    /\ IF ~selected_template.present \/ ~generated_content
       THEN NodeFallsBack
       ELSE /\ pc' = "node_split"
            /\ UNCHANGED <<final_html, messages>>
    /\ UNCHANGED <<html_chunks, chunk_results, reconstructed, doctype>>
    /\ UNCHANGED nodeFrame

\* self.html_chunker.split_html(original_html, original_css)
NodeSplit(raises) ==
    /\ pc = "node_split"
    /\ IF raises
       THEN /\ NodeFallsBack
            /\ UNCHANGED html_chunks
       ELSE /\ html_chunks' = SplitHtml(selected_template, ChunkSizeLimit)
            /\ pc' = "node_fill"
            /\ UNCHANGED <<final_html, messages>>
    /\ UNCHANGED <<chunk_results, reconstructed, doctype>>
    /\ UNCHANGED nodeFrame

\* process_chunks_with_selective_retry(chunks, ..., max_retry_attempts=2): a
\* result for each chunk, here with the chunk's own content, or an exception
NodeFill(raises) ==
    /\ pc = "node_fill"
    /\ IF raises
       THEN /\ NodeFallsBack
            /\ UNCHANGED chunk_results
       ELSE /\ chunk_results' = [k \in 1..Len(html_chunks) |->
                                   CreateUnmodifiedResult(html_chunks[k])]
            /\ pc' = "node_reconstruct"
            /\ UNCHANGED <<final_html, messages>>
    /\ UNCHANGED <<html_chunks, reconstructed, doctype>>
    /\ UNCHANGED nodeFrame

\* the doctype line, reconstruct_html, and the return when it gave nothing
NodeReconstruct(raises) ==
    /\ pc = "node_reconstruct"
    /\ IF raises
       THEN /\ NodeFallsBack
            /\ UNCHANGED <<doctype, reconstructed>>
       ELSE /\ doctype' = DoctypeOf(selected_template.doctypes)
            /\ reconstructed' = ReconstructHtml(chunk_results, doctype')
            /\ IF reconstructed' = <<>>
               THEN NodeFallsBack
               ELSE /\ pc' = "node_fix"
                    /\ UNCHANGED <<final_html, messages>>
    /\ UNCHANGED <<html_chunks, chunk_results>>
    /\ UNCHANGED nodeFrame

\* fix_html_structure(reconstructed_html, brand_name), which returns its
\* minimal valid html when something fails in it, and the last return
NodeFix(fails) ==
    /\ pc = "node_fix"
    /\ final_html' = IF fails THEN MinimalValidHtml ELSE FixHtmlStructure(reconstructed)
    /\ messages' = Append(messages, InfoMessage)
    /\ pc' = "node_returned"
    /\ UNCHANGED <<html_chunks, chunk_results, reconstructed, doctype>>
    /\ UNCHANGED nodeFrame

NodeNext ==
    \/ NodeEnter
    \/ \E raises \in BOOLEAN : NodeSplit(raises)
    \/ \E raises \in BOOLEAN : NodeFill(raises)
    \/ \E raises \in BOOLEAN : NodeReconstruct(raises)
    \/ \E fails \in BOOLEAN : NodeFix(fails)

NodeSpec == NodeInit /\ [][NodeNext]_vars

\* ------------------------------------------- two documents, one instance
\* Two calls of process_chunks_with_selective_retry on the same
\* SelectiveChunkProcessor, interleaved at their awaits.  The instance holds
\* chunk_processor and html_chunker, which no call writes; everything else is
\* a local of the call, kept here in the call's record.
DocumentNames == {"first", "second"}
OtherDocument(d) == IF d = "first" THEN "second" ELSE "first"

MaxCallsBodyChunks == 2
MaxCallsRetryRounds == 1

\* The ends of a filler call taken here: an answer that passes the content
\* validator and one that does not (the exception is followed in Spec).
CallOutcomes == {"filled_ok", "filled_generic"}

\* the template text each document is cut from
TemplateOf(d) == IF d = "first" THEN "tpl_neutral" ELSE "tpl_generic"

CallDocuments(d, maxLen) == { MakeChunks(TemplateOf(d), b) : b \in Bodies(TemplateOf(d), maxLen) }

\* the locals of a call at its entry
CallEntered(doc, retries) ==
    [chunks |-> doc, max_retry_attempts |-> retries, pc |-> "initial",
     task |-> [i \in 1..Len(doc) |-> "pending"],
     semaphore |-> SemaphoreWidth,
     gathered |-> [i \in 1..Len(doc) |-> NoResult],
     chunk_results |-> <<>>, attempt |-> 0,
     failed_chunks |-> <<>>, retry_results |-> <<>>, retry_inflight |-> FALSE]

\* filler calls of document d that have started and not ended
CallInFlight(call) ==
    Cardinality({ i \in 1..Len(call.chunks) : call.task[i] = "inflight" })
        + (IF call.retry_inflight THEN 1 ELSE 0)

\* retry_dict = {result.chunk_id: result for result in retry_results}: the
\* results the dict of call d is built from
RetryDictShared(all_calls, d) == all_calls[d].retry_results \o all_calls[OtherDocument(d)].retry_results
RetryDictOf(all_calls, d) == all_calls[d].retry_results

callsFrame == <<chunks, max_retry_attempts, pc, task, semaphore, gathered,
                chunk_results, attempt, failed_chunk_ids, failed_chunks,
                retry_results, retry_inflight, retry_prompt, round_calls,
                total_calls, last_outcome, validation_passes, results_validated,
                merged_results, validatorVars, chunkerVars, classifierVars,
                fixerVars, nodeVars, parserVars, graph>>

CallsInit ==
    /\ chunks = <<>>
    /\ max_retry_attempts = DefaultMaxRetryAttempts
    /\ pc = "calls"
    /\ task = <<>>
    /\ semaphore = SemaphoreWidth
    /\ gathered = <<>>
    /\ chunk_results = <<>>
    /\ attempt = 0
    /\ failed_chunk_ids = {}
    /\ failed_chunks = <<>>
    /\ retry_results = <<>>
    /\ retry_inflight = FALSE
    /\ retry_prompt = NoPrompt
    /\ round_calls = <<>>
    /\ total_calls = <<>>
    /\ last_outcome = <<>>
    /\ validation_passes = 0
    /\ results_validated = FALSE
    /\ merged_results = <<>>
    /\ ValidatorIdle
    /\ ChunkerIdle
    /\ ClassifierIdle
    /\ FixerIdle
    /\ NodeIdle
    /\ ParserIdle
    /\ \E first \in CallDocuments("first", MaxCallsBodyChunks) :
       \E second \in CallDocuments("second", MaxCallsBodyChunks) :
           calls = [d \in DocumentNames |->
                      CallEntered(IF d = "first" THEN first ELSE second,
                                  MaxCallsRetryRounds)]
    /\ GraphIdle

\* process_single_chunk of document d enters "async with semaphore"
CallTaskAcquire(d, i) ==
    LET call == calls[d] IN
    /\ call.pc = "initial"
    /\ call.task[i] = "pending"
    /\ \A j \in 1..(i-1) : call.task[j] # "pending"
    /\ call.semaphore > 0
    /\ calls' = [calls EXCEPT ![d] =
         IF ShortCircuits(call.chunks[i])
         THEN [call EXCEPT !.task[i] = "finished",
                           !.gathered = GatherStore(call.gathered, i,
                                          CreateUnmodifiedResult(call.chunks[i]))]
         ELSE [call EXCEPT !.task[i] = "inflight",
                           !.semaphore = call.semaphore - 1]]
    /\ UNCHANGED callsFrame

\* the LLM call of task i of document d ends
CallFillerReturns(d, i, outcome) ==
    LET call == calls[d] IN
    /\ call.pc = "initial"
    /\ call.task[i] = "inflight"
    /\ calls' = [calls EXCEPT ![d] =
         [call EXCEPT !.task[i] = "finished",
                      !.semaphore = call.semaphore + 1,
                      !.gathered = GatherStore(call.gathered, i,
                                     ResultOfOutcome(call.chunks[i], outcome))]]
    /\ UNCHANGED callsFrame

\* process_chunks_parallel of document d returns
CallGatherReturns(d) ==
    LET call == calls[d] IN
    /\ call.pc = "initial"
    /\ \A i \in 1..Len(call.chunks) : call.task[i] = "finished"
    /\ calls' = [calls EXCEPT ![d] =
         [call EXCEPT !.chunk_results = call.gathered, !.pc = "loop", !.attempt = 0]]
    /\ UNCHANGED callsFrame

\* an iteration of the loop of document d begins
CallValidate(d) ==
    LET call == calls[d]
        failed == IdentifyFailedChunkIds(call.chunk_results)
    IN
    /\ call.pc = "loop"
    /\ LoopContinues(call.attempt, call.max_retry_attempts)
    /\ calls' = [calls EXCEPT ![d] =
         IF BreaksLoop(failed)
         THEN [call EXCEPT !.pc = "done"]
         ELSE [call EXCEPT !.pc = "retry",
                           !.failed_chunks = FailedChunks(call.chunks, failed),
                           !.retry_results = <<>>]]
    /\ UNCHANGED callsFrame

CallLoopExhausted(d) ==
    LET call == calls[d] IN
    /\ call.pc = "loop"
    /\ ~LoopContinues(call.attempt, call.max_retry_attempts)
    /\ calls' = [calls EXCEPT ![d] = [call EXCEPT !.pc = "done"]]
    /\ UNCHANGED callsFrame

\* _retry_failed_chunks of document d takes its next failed chunk
CallRetryNext(d) ==
    LET call == calls[d] IN
    /\ call.pc = "retry"
    /\ ~call.retry_inflight
    /\ Len(call.retry_results) < Len(call.failed_chunks)
    /\ LET chunk == call.failed_chunks[Len(call.retry_results) + 1]
       IN calls' = [calls EXCEPT ![d] =
            IF ShortCircuitsRetry(chunk)
            THEN [call EXCEPT !.retry_results =
                     Append(call.retry_results, CreateUnmodifiedResult(chunk))]
            ELSE [call EXCEPT !.retry_inflight = TRUE]]
    /\ UNCHANGED callsFrame

\* the awaited LLM call of the retry of document d ends
CallRetryFillerReturns(d, outcome) ==
    LET call == calls[d] IN
    /\ call.pc = "retry"
    /\ call.retry_inflight
    /\ LET chunk == call.failed_chunks[Len(call.retry_results) + 1]
       IN calls' = [calls EXCEPT ![d] =
            [call EXCEPT !.retry_results = RetryAppend(call.retry_results, chunk, outcome),
                         !.retry_inflight = FALSE]]
    /\ UNCHANGED callsFrame

\* _retry_failed_chunks of document d has returned: merge
CallMerge(d) ==
    LET call == calls[d] IN
    /\ call.pc = "retry"
    /\ ~call.retry_inflight
    /\ Len(call.retry_results) = Len(call.failed_chunks)
    /\ calls' = [calls EXCEPT ![d] =
         [call EXCEPT !.chunk_results =
                         MergeChunkResults(call.chunk_results, RetryDictOf(calls, d)),
                      !.attempt = call.attempt + 1,
                      !.pc = "loop"]]
    /\ UNCHANGED callsFrame

CallsNext ==
    \E d \in DocumentNames :
        \/ \E i \in 1..Len(calls[d].chunks) : CallTaskAcquire(d, i)
        \/ \E i \in 1..Len(calls[d].chunks) : \E outcome \in CallOutcomes :
               CallFillerReturns(d, i, outcome)
        \/ CallGatherReturns(d)
        \/ CallValidate(d)
        \/ CallLoopExhausted(d)
        \/ CallRetryNext(d)
        \/ \E outcome \in CallOutcomes : CallRetryFillerReturns(d, outcome)
        \/ CallMerge(d)

CallsSpec == CallsInit /\ [][CallsNext]_vars

\* ------------------------------------------------- validation result parser
\* What chain.ainvoke returns, by shape.  Scores are in thousandths.
\*   kind     "instance" a ValidationResult, "not_dict" any other value that
\*            is not a dict (a list, a string, None), "dict" a dict
\*   wrapped  the dict has the key 'ValidationResult'
\*   mapping  the value under that key is itself a dict
\*   score    a number, the text of a number ("0.85", form numeric_text), a
\*            text that is no number, None, or no such key
\*   errors, warnings   a list of strings, one string, a list whose items are
\*            not strings, or no such key
ScoreValues == {0, 650, 700, 850}
ResponseScores ==
    [form : {"number"}, value : ScoreValues]
      \cup { [form |-> "numeric_text", value |-> 850] }
      \cup [form : {"text", "none", "absent"}, value : {0}]
ResponseLists == {"list_of_str", "string", "list_of_other", "absent"}
ResponseFlags == {"true", "false", "absent"}

DictResponses ==
    [kind : {"dict"}, wrapped : BOOLEAN, mapping : BOOLEAN,
     is_valid : ResponseFlags, errors : ResponseLists,
     warnings : {"list_of_str", "list_of_other"}, score : ResponseScores]

Responses ==
    { r \in DictResponses : ~r.wrapped => r.mapping }
      \cup { [kind |-> "not_dict"] }
      \cup [kind : {"instance"}, is_valid : BOOLEAN, score : ScoreValues]

\* float(x): the number, or ValueError (a text that is no number) or
\* TypeError (None)
Float(x) ==
    CASE x.form \in {"number", "numeric_text"} -> [raised |-> "", value |-> x.value]
      [] x.form = "text" -> [raised |-> "ValueError", value |-> 0]
      [] OTHER -> [raised |-> "TypeError", value |-> 0]

\* validation_data.get(key, default) of a field of the response
GetScore(r) == IF r.score.form = "absent" THEN [form |-> "number", value |-> 0] ELSE r.score
GetList(field) == IF field = "absent" THEN "list_of_str" ELSE field

\* the errors of the result, by what they say
ResponseErrors == "errors of the response"
UnexpectedTypeError == "Unexpected response type"
ParseError == "Failed to parse validation response"
NodeError == "Error in validation node"
DescriptiveErrors == {UnexpectedTypeError, ParseError, NodeError}

\* is_valid=fallback_score >= 0.7
FallbackIsValidNever(fallback_score) == FALSE
FallbackIsValid(fallback_score) == fallback_score >= 700

\* the inner try of the except branch: the score of the response, if it has
\* one that float takes
FallbackScore(r) ==
    IF r.score.form = "absent" \/ Float(r.score).raised # "" THEN 0 ELSE Float(r.score).value

\* the except branch of create_validation_result
FallbackResult(r) ==
    [is_valid |-> FallbackIsValid(FallbackScore(r)),
     errors |-> ParseError,
     warnings |-> "Response parsing issue",
     score |-> FallbackScore(r)]

\* ValidationResultParser.create_validation_result: the ValidationResult it
\* returns, or the exception that leaves it
CreateValidationResult(r) ==
    CASE r.kind = "instance" ->
           [raised |-> "",
            result |-> [is_valid |-> r.is_valid, errors |-> ResponseErrors,
                        warnings |-> "warnings of the response", score |-> r.score]]
      [] r.kind = "not_dict" ->
           [raised |-> "",
            result |-> [is_valid |-> FALSE, errors |-> UnexpectedTypeError,
                        warnings |-> "", score |-> 0]]
      [] ~r.mapping -> [raised |-> "AttributeError"]
      [] Float(GetScore(r)).raised # "" -> [raised |-> "", result |-> FallbackResult(r)]
      [] GetList(r.errors) = "list_of_other" \/ GetList(r.warnings) = "list_of_other" ->
           [raised |-> "", result |-> FallbackResult(r)]
      [] OTHER ->
           [raised |-> "",
            result |-> [is_valid |-> r.is_valid = "true",
                        errors |-> ResponseErrors,
                        warnings |-> "warnings of the response",
                        score |-> Float(GetScore(r)).value]]

\* validation_node, except Exception
NodeErrorResult == [is_valid |-> FALSE, errors |-> NodeError, warnings |-> "", score |-> 0]

parserFrame == <<chunks, max_retry_attempts, task, semaphore, gathered,
                 chunk_results, attempt, failed_chunk_ids, failed_chunks,
                 retry_results, retry_inflight, retry_prompt, round_calls,
                 total_calls, last_outcome, validation_passes, results_validated,
                 merged_results, validatorVars, chunkerVars, classifierVars,
                 fixerVars, nodeVars, calls, graph>>

ParserInit ==
    /\ chunks = <<>>
    /\ max_retry_attempts = DefaultMaxRetryAttempts
    /\ pc = "validation_call"
    /\ task = <<>>
    /\ semaphore = SemaphoreWidth
    /\ gathered = <<>>
    /\ chunk_results = <<>>
    /\ attempt = 0
    /\ failed_chunk_ids = {}
    /\ failed_chunks = <<>>
    /\ retry_results = <<>>
    /\ retry_inflight = FALSE
    /\ retry_prompt = NoPrompt
    /\ round_calls = <<>>
    /\ total_calls = <<>>
    /\ last_outcome = <<>>
    /\ validation_passes = 0
    /\ results_validated = FALSE
    /\ merged_results = <<>>
    /\ ValidatorIdle
    /\ ChunkerIdle
    /\ ClassifierIdle
    /\ FixerIdle
    /\ NodeIdle
    /\ ParserIdle
    /\ CallsIdle
    /\ GraphIdle

\* response = await chain.ainvoke({}): a response, or an exception, which
\* the node's except clause turns into its result
ChainInvoke(raises) ==
    /\ pc = "validation_call"
    /\ IF raises
       THEN /\ final_validation' = NodeErrorResult
            /\ pc' = "validation_failed"
            /\ UNCHANGED response
       ELSE /\ \E r \in Responses : response' = r
            /\ pc' = "validation_parse"
            /\ UNCHANGED final_validation
    /\ UNCHANGED parserFrame

\* validation_result = self.result_parser.create_validation_result(response)
\* and the return of the node, by its try or by its except clause
ParseResponse ==
    /\ pc = "validation_parse"
    /\ LET created == CreateValidationResult(response)
       IN final_validation' = IF created.raised = "" THEN created.result
                              ELSE NodeErrorResult
    /\ pc' = "validated"
    /\ UNCHANGED response
    /\ UNCHANGED parserFrame

ParserNext ==
    \/ \E raises \in BOOLEAN : ChainInvoke(raises)
    \/ ParseResponse

ParserSpec == ParserInit /\ [][ParserNext]_vars

\* ------------------------------------------ one large element, on its own
\* A document whose body is one <main> element of ScenarioSize units, split
\* with max_chunk_size = ScenarioLimit units (a unit standing for a thousand
\* characters), for every division of its content into child elements that
\* fit in a sub-chunk; and documents whose <main> has long attributes and no
\* child, or one child.
ScenarioSize == 12
ScenarioLimit == 8

\* the sequences of child lengths 1..maxPart that add up to total
RECURSIVE Compositions(_, _)
Compositions(total, maxPart) ==
    IF total = 0 THEN { <<>> }
    ELSE UNION { { <<part>> \o rest : rest \in Compositions(total - part, maxPart) }
                 : part \in 1..(IF maxPart < total THEN maxPart ELSE total) }

ChildElements(lens) == [j \in 1..Len(lens) |-> [kind |-> "element", len |-> lens[j]]]

\* <main> without attributes, of the given size, every child fitting
MainElements(size, max_chunk_size) ==
    { [tag |-> "main", attrs |-> "plain", children |-> ChildElements(lens)] :
        lens \in Compositions(size - 2, max_chunk_size - 2) }

\* <main> of long attributes: without child, and with one child of one unit
WrapperElements ==
    { [tag |-> "main", attrs |-> "long", children |-> c] :
        c \in { <<>>, ChildElements(<<1>>) } }

ScenarioDocuments(size, max_chunk_size) ==
    { [has_head |-> h, has_body |-> TRUE, body |-> <<e>>] :
        h \in BOOLEAN, e \in MainElements(size, max_chunk_size) \cup WrapperElements }

ScenarioInit ==
    /\ chunks = <<>>
    /\ max_retry_attempts = DefaultMaxRetryAttempts
    /\ pc = "scenario_call"
    /\ task = <<>>
    /\ semaphore = SemaphoreWidth
    /\ gathered = <<>>
    /\ chunk_results = <<>>
    /\ attempt = 0
    /\ failed_chunk_ids = {}
    /\ failed_chunks = <<>>
    /\ retry_results = <<>>
    /\ retry_inflight = FALSE
    /\ retry_prompt = NoPrompt
    /\ round_calls = <<>>
    /\ total_calls = <<>>
    /\ last_outcome = <<>>
    /\ validation_passes = 0
    /\ results_validated = FALSE
    /\ merged_results = <<>>
    /\ ValidatorIdle
    /\ document \in ScenarioDocuments(ScenarioSize, ScenarioLimit)
    /\ html_chunks = <<>>
    /\ reconstructed = <<>>
    /\ ClassifierIdle
    /\ FixerIdle
    /\ NodeIdle
    /\ ParserIdle
    /\ CallsIdle
    /\ GraphIdle

\* HTMLChunker(max_chunk_size=ScenarioLimit).split_html(document)
ScenarioSplit ==
    /\ pc = "scenario_call"
    /\ html_chunks' = SplitHtml(document, ScenarioLimit)
    /\ pc' = "split_returned"
    /\ UNCHANGED <<chunks, max_retry_attempts, task, semaphore, gathered,
                   chunk_results, attempt, failed_chunk_ids, failed_chunks,
                   retry_results, retry_inflight, retry_prompt, round_calls, total_calls,
                   last_outcome, validation_passes, results_validated,
                   merged_results, validatorVars, document, reconstructed,
                   classifierVars, fixerVars, nodeVars, parserVars, calls, graph>>

ScenarioNext ==
    \/ ScenarioSplit
    \/ \E d \in OriginalDoctypes : ReconstructCall(d)

ScenarioSpec == ScenarioInit /\ [][ScenarioNext]_vars

\* -------------------------------------------- the children of the body
\* Documents whose body holds direct children of several kinds: elements
\* with a structural tag name, elements with another tag name (div, p) and
\* text nodes (the whitespace between two tags is one).  find_all returns
\* tags only; body.children yields the text nodes as well, and they pass
\* hasattr(child, 'name'), their name being None.
MaxMixedNodes == 3
MaxFallbackNodes == 11

TextNode == [tag |-> "#text", attrs |-> "plain", children |-> <<>>]
SmallElement(tag) == [tag |-> tag, attrs |-> "plain", children |-> <<>>]
\* a <main> over the size limit, of two children
LargeMain ==
    [tag |-> "main", attrs |-> "plain",
     children |-> <<[kind |-> "element", len |-> 3], [kind |-> "element", len |-> 5]>>]

BodyNodes ==
    { SmallElement(tag) : tag \in {"header", "main", "section", "div", "p"} }
      \cup { LargeMain, TextNode }
PlainNodes == { SmallElement("div"), SmallElement("p") }

SeqsUpTo(nodes, maxLen) == UNION { [1..n -> nodes] : n \in 0..maxLen }

BodyDocuments(maxMixed, maxFallback) ==
    { [has_head |-> TRUE, has_body |-> TRUE, body |-> b] :
        b \in SeqsUpTo(BodyNodes, maxMixed) \cup SeqsUpTo(PlainNodes, maxFallback) }

\* _split_body_content builds the chunk of a selected text node:
\* _extract_element_metadata calls element.get, which a NavigableString does
\* not have (AttributeError), and _split_large_element reads its children
SplitRaises(doc) ==
    /\ doc.has_body
    /\ \E k \in 1..Len(FindStructuralElements(doc.body)) :
          FindStructuralElements(doc.body)[k].tag = "#text"

BodyInit ==
    /\ chunks = <<>>
    /\ max_retry_attempts = DefaultMaxRetryAttempts
    /\ pc = "body_call"
    /\ task = <<>>
    /\ semaphore = SemaphoreWidth
    /\ gathered = <<>>
    /\ chunk_results = <<>>
    /\ attempt = 0
    /\ failed_chunk_ids = {}
    /\ failed_chunks = <<>>
    /\ retry_results = <<>>
    /\ retry_inflight = FALSE
    /\ retry_prompt = NoPrompt
    /\ round_calls = <<>>
    /\ total_calls = <<>>
    /\ last_outcome = <<>>
    /\ validation_passes = 0
    /\ results_validated = FALSE
    /\ merged_results = <<>>
    /\ ValidatorIdle
    /\ document \in BodyDocuments(MaxMixedNodes, MaxFallbackNodes)
    /\ html_chunks = <<>>
    /\ reconstructed = <<>>
    /\ ClassifierIdle
    /\ FixerIdle
    /\ NodeIdle
    /\ ParserIdle
    /\ CallsIdle
    /\ GraphIdle

\* split_html(document) with max_chunk_size = ChunkSizeLimit: the chunks, or
\* the AttributeError that leaves it
BodySplit ==
    /\ pc = "body_call"
    /\ IF SplitRaises(document)
       THEN /\ pc' = "split_raised"
            /\ UNCHANGED html_chunks
       ELSE /\ html_chunks' = SplitHtml(document, ChunkSizeLimit)
            /\ pc' = "split_returned"
    /\ UNCHANGED <<chunks, max_retry_attempts, task, semaphore, gathered,
                   chunk_results, attempt, failed_chunk_ids, failed_chunks,
                   retry_results, retry_inflight, retry_prompt, round_calls, total_calls,
                   last_outcome, validation_passes, results_validated,
                   merged_results, validatorVars, document, reconstructed,
                   classifierVars, fixerVars, nodeVars, parserVars, calls, graph>>

BodyNext ==
    \/ BodySplit
    \/ \E d \in OriginalDoctypes : ReconstructCall(d)

BodySpec == BodyInit /\ [][BodyNext]_vars

\* ================================================================== claims

\* C1: for every max_retry_attempts and every sequence of filler outcomes and
\* validator verdicts the coordinator runs at most max_retry_attempts + 1
\* validation passes, is never stuck before it returns, and returns the
\* complete result sequence even when chunks still need regeneration.
RetryTerminates ==
    /\ validation_passes <= max_retry_attempts + 1
    /\ pc # "done" => ENABLED Next
    /\ pc = "done" => Len(chunk_results) = N

RetryTerminatesWitness ==
    /\ pc = "done"
    /\ max_retry_attempts = 2
    /\ validation_passes = 2
    /\ \E i \in 1..N : chunks[i].modifiable /\ NeedsRegeneration(chunk_results[i])
    /\ \E i \in 1..N : last_outcome[i] = "raise"

\* C2: the number of filler calls in flight never exceeds 3, in round 0 for
\* any number of queued chunks, and retries run one at a time.
ConcurrencyBound ==
    /\ InFlight <= 3
    /\ pc = "retry" => InFlight <= 1

ConcurrencyBoundWitness ==
    /\ pc = "initial"
    /\ InFlight = 3
    /\ \E i \in 1..N : task[i] = "pending" /\ chunks[i].modifiable

\* C3: for a chunk with modifiable = false the filler is never invoked, in
\* round 0 or in a retry round, and each of its results (gathered, retried,
\* merged) has processed_content equal to the chunk's content, also when the
\* chunk validator flags it.
NonModifiableInvariance ==
    \A i \in 1..N : ~chunks[i].modifiable =>
        /\ total_calls[i] = 0
        /\ task[i] # "inflight"
        /\ task[i] = "finished" => gathered[i].processed_content = chunks[i].content
        /\ pc # "initial" =>
              /\ i <= Len(chunk_results)
              /\ chunk_results[i].processed_content = chunks[i].content
        /\ \A k \in 1..Len(retry_results) :
              retry_results[k].chunk_id = chunks[i].id =>
                 retry_results[k].processed_content = chunks[i].content

NonModifiableInvarianceWitness ==
    /\ pc = "done"
    /\ attempt = 2
    /\ \E i \in 2..N :
          /\ ~chunks[i].modifiable
          /\ chunks[i].id \in failed_chunk_ids
          /\ \E k \in 1..Len(retry_results) : retry_results[k].chunk_id = chunks[i].id

\* C4: process_chunks_parallel returns as many results as there are chunks
\* and the i-th result carries the i-th chunk's id, whatever the order in
\* which the filler calls end.
GatherKeepsOrder ==
    /\ pc = "initial" =>
          \A i \in 1..N : task[i] = "finished" => gathered[i].chunk_id = chunks[i].id
    /\ (pc = "loop" /\ attempt = 0) =>
          /\ Len(chunk_results) = N
          /\ \A i \in 1..N : chunk_results[i].chunk_id = chunks[i].id

GatherKeepsOrderWitness ==
    /\ pc = "initial"
    /\ \E i, j \in 1..N :
          /\ i < j
          /\ task[i] = "inflight"
          /\ task[j] = "finished"
          /\ last_outcome[j] = "raise"

\* C5: when the filler raises for a chunk, that chunk's result has score 0.0,
\* the exception message as its only error and the chunk's original content;
\* the calls of the other chunks still end and their results carry what
\* their own calls returned.
FailureIsolated ==
    /\ pc = "initial" =>
          \A i \in 1..N : (task[i] = "finished" /\ last_outcome[i] = "raise") =>
              /\ gathered[i].validation_score = 0
              /\ gathered[i].errors = <<ExceptionMessage>>
              /\ gathered[i].processed_content = chunks[i].content
    /\ pc = "retry" =>
          \A k \in 1..Len(retry_results) :
              LET i == IndexOf(failed_chunks[k])
              IN /\ retry_results[k].chunk_id = chunks[i].id
                 /\ (chunks[i].modifiable /\ last_outcome[i] = "raise") =>
                       /\ retry_results[k].validation_score = 0
                       /\ retry_results[k].errors = <<ExceptionMessage>>
                       /\ retry_results[k].processed_content = chunks[i].content
                 /\ (chunks[i].modifiable /\ last_outcome[i] \in LLMOutputs) =>
                       /\ retry_results[k].processed_content = last_outcome[i]
                       /\ retry_results[k].errors = <<>>
    /\ pc \in {"loop", "done"} =>
          \A i \in 1..N : chunks[i].modifiable =>
              /\ last_outcome[i] # "none"
              /\ i <= Len(chunk_results)
              /\ last_outcome[i] = "raise" =>
                    /\ chunk_results[i].validation_score = 0
                    /\ chunk_results[i].errors = <<ExceptionMessage>>
                    /\ chunk_results[i].processed_content = chunks[i].content
              /\ last_outcome[i] \in LLMOutputs =>
                    /\ chunk_results[i].processed_content = last_outcome[i]
                    /\ chunk_results[i].errors = <<>>

FailureIsolatedWitness ==
    /\ pc = "done"
    /\ \E i, j, k \in 1..N :
          /\ i < j /\ j < k
          /\ last_outcome[i] = "filled_ok"
          /\ last_outcome[j] = "raise" /\ total_calls[j] = 1
          /\ last_outcome[k] = "raise" /\ total_calls[k] >= 2

\* C6: after round 0 the result sequence always holds exactly one result
\* for each chunk, in chunk order.
OneResultPerChunk ==
    pc # "initial" =>
        /\ Len(chunk_results) = N
        /\ \A i \in 1..N : chunk_results[i].chunk_id = chunks[i].id

OneResultPerChunkWitness ==
    /\ pc = "done"
    /\ attempt = 2
    /\ Len(retry_results) >= 2
    /\ Len(retry_results) < N
    /\ \E i \in 2..(N-1) :
          /\ ~RetryDictHas(retry_results, chunks[i].id)
          /\ RetryDictHas(retry_results, chunks[i+1].id)

\* C7: _merge_chunk_results replaces exactly the results whose chunk id
\* occurs in the retry output, leaves every other result as it was, and the
\* merged sequence is the same for every order of the retry output.
Reordered(seq, perm) == [k \in 1..Len(seq) |-> seq[perm[k]]]
ReorderingsOf(seq) ==
    { Reordered(seq, perm) :
        perm \in { f \in InjectiveSeqs(Len(seq)) : Len(f) = Len(seq) } }

MergeReplacesExactly ==
    pc = "merge_returned" =>
        /\ Len(merged_results) = Len(chunk_results)
        /\ \A k \in 1..Len(chunk_results) :
              IF \E j \in 1..Len(retry_results) :
                     retry_results[j].chunk_id = chunk_results[k].chunk_id
              THEN \E j \in 1..Len(retry_results) :
                     /\ retry_results[j].chunk_id = chunk_results[k].chunk_id
                     /\ merged_results[k] = retry_results[j]
              ELSE merged_results[k] = chunk_results[k]
        /\ \A other \in ReorderingsOf(retry_results) :
              MergeChunkResults(chunk_results, other) = merged_results

MergeReplacesExactlyWitness ==
    /\ pc = "merge_returned"
    /\ Len(chunk_results) = 3
    /\ Len(retry_results) = 2
    /\ retry_results[1].chunk_id = chunk_results[3].chunk_id
    /\ retry_results[2].chunk_id = chunk_results[1].chunk_id
    /\ merged_results[3] # chunk_results[3]
    /\ merged_results[2] = chunk_results[2]

\* C8: in a retry round the filler is invoked only for chunks whose id is in
\* the failed set of that round's validation pass; a chunk that pass did not
\* flag is not re-filled in the round.
OnlyFailedRetried ==
    pc = "retry" =>
        /\ failed_chunk_ids # {}
        /\ \A i \in 1..N : round_calls[i] > 0 =>
              /\ chunks[i].id \in failed_chunk_ids
              /\ NeedsRegeneration(chunk_results[i])
        /\ \A k \in 1..Len(failed_chunks) : failed_chunks[k].id \in failed_chunk_ids

OnlyFailedRetriedWitness ==
    /\ pc = "retry"
    /\ attempt = 1
    /\ Len(retry_results) = Len(failed_chunks)
    /\ \E i, j \in 1..N :
          /\ round_calls[i] = 1
          /\ chunks[j].modifiable
          /\ ~NeedsRegeneration(chunk_results[j])
          /\ round_calls[j] = 0

\* C9 as stated: a validation pass runs at the start of every round
\* r = 0 .. max_attempts, round max_attempts included, so the results of the
\* last retry round have been validated when the coordinator returns.
ValidatedBeforeReturn ==
    (pc = "done" /\ attempt >= 1) => results_validated

\* C9 as amended: a validation pass runs at the start of every round
\* r = 0 .. max_attempts - 1 that is reached and none at round max_attempts;
\* the results are returned validated only when a pass found no failed
\* chunk, and otherwise as the last merge (or round 0) left them.
ValidationPassPerRound ==
    /\ pc = "loop" => (validation_passes = attempt /\ ~results_validated)
    /\ pc = "retry" => (validation_passes = attempt + 1 /\ results_validated)
    /\ pc = "done" =>
          /\ validation_passes <= max_retry_attempts
          /\ results_validated <=> (validation_passes = attempt + 1 /\ failed_chunk_ids = {})
          /\ ~results_validated => (attempt = max_retry_attempts /\ validation_passes = attempt)

ValidationPassPerRoundWitness ==
    /\ pc = "done"
    /\ max_retry_attempts = 2
    /\ attempt = 2
    /\ validation_passes = 2
    /\ ~results_validated
    /\ \E i \in 1..N : chunks[i].modifiable /\ NeedsRegeneration(chunk_results[i])

\* C10: the filler is invoked exactly once in round 0 for each modifiable
\* chunk and at most once in each retry round, so at most
\* 1 + max_retry_attempts times for the document; a call that raised is not
\* issued again in the same round.
FillerCallBudget ==
    \A i \in 1..N :
        /\ round_calls[i] <= 1
        /\ total_calls[i] <= 1 + max_retry_attempts
        /\ pc = "initial" => total_calls[i] = round_calls[i]
        /\ pc # "initial" =>
              /\ chunks[i].modifiable => total_calls[i] >= 1
              /\ total_calls[i] <= 1 + attempt + (IF pc = "retry" THEN 1 ELSE 0)
        /\ (pc = "loop" /\ attempt = 0) =>
              total_calls[i] = (IF chunks[i].modifiable THEN 1 ELSE 0)

FillerCallBudgetWitness ==
    /\ pc = "done"
    /\ max_retry_attempts = 2
    /\ \E i, j \in 1..N :
          /\ total_calls[i] = 3
          /\ last_outcome[i] = "raise"
          /\ chunks[j].modifiable
          /\ total_calls[j] = 1

\* C11: for the content "Contact: test@example.com" and a spec whose contact
\* email is "info@brand.com", the validator's score is below 0.8, the
\* coordinator sets needs_regeneration and the chunk is in the failed set
\* that the next retry round processes.
ContactExampleRegenerated ==
    (pc = "validator_returned" /\ content_tests \in ContactExampleTests) =>
        /\ validation_results[1].score < 800
        /\ validation_results[1].needs_regeneration
        /\ SectionId(1) \in failed_chunk_ids

\* C12: the score is 1.0 times 0.7 if a brand error was found, times 0.8 if a
\* contact error was found, times 0.9 if a relevance warning was found, each
\* factor once, and lies in [0, 1]; is_valid is score >= 0.7 and
\* needs_regeneration is score < 0.7 or a brand mismatch.
ScoreFormula ==
    pc = "validator_returned" =>
        LET f == content_tests
            v == validation_results[1]
            brand == f.has_generic \/ (~f.has_correct_brand /\ f.has_brand_word)
            contact == \/ (f.has_at /\ ~f.has_spec_email /\ f.has_generic_domain)
                       \/ (f.has_phone_pattern /\ ~f.has_spec_phone)
                       \/ (f.has_moscow /\ ~f.has_spec_address)
            relevance == f.relevance_warnings > 0
            product == (IF brand THEN 7 ELSE 10) * (IF contact THEN 8 ELSE 10)
                         * (IF relevance THEN 9 ELSE 10)
        IN /\ v.score = product
           /\ v.score >= 0 /\ v.score <= 1000
           /\ v.is_valid <=> (v.score >= 700)
           /\ v.needs_regeneration <=> (v.score < 700 \/ brand)
           /\ (SectionId(1) \in failed_chunk_ids) <=> v.needs_regeneration

ScoreFormulaWitness ==
    /\ pc = "validator_returned"
    /\ ContactErrors(content_tests) = 3
    /\ BrandErrors(content_tests) = 1
    /\ content_tests.relevance_warnings = 2
    /\ validation_results[1].score = 504
    /\ validation_results[1].needs_regeneration

\* --------------------------------------------------------- chunker claims
\* the chunks of split_html that are sub-chunks of element i (section_i_j)
IsPart(chunk) == chunk.chunk_type.part
PartsOf(i) ==
    SelectSeq(html_chunks, LAMBDA c : IsPart(c) /\ c.id[2] = i)
\* the content of a sub-chunk between its wrapping tags
InnerOf(chunk) == SubSeq(chunk.content, 2, Len(chunk.content) - 1)

RECURSIVE ConcatInner(_)
ConcatInner(parts) ==
    IF parts = <<>> THEN <<>> ELSE InnerOf(Head(parts)) \o ConcatInner(Tail(parts))

\* C13 as stated: every chunk other than the head chunk has size at most
\* max_chunk_size, unless it is a sub-chunk made of a single child that
\* alone exceeds max_chunk_size.
SizeBound ==
    pc = "split_returned" =>
        \A k \in 1..Len(html_chunks) :
            LET c == html_chunks[k]
            IN c.id # HeadId =>
                 \/ c.size <= ChunkSizeLimit
                 \/ /\ IsPart(c)
                    /\ Len(InnerOf(c)) = 1
                    /\ InnerOf(c)[1].len > ChunkSizeLimit

\* C13 amended: every chunk other than the head chunk has size at most
\* max_chunk_size, unless it is a sub-chunk made of a single child; such a
\* sub-chunk exceeds the limit exactly when the child together with the
\* wrapping tags does, which can happen for a child within the limit.
SizeBoundWithWrapper ==
    pc = "split_returned" =>
        \A k \in 1..Len(html_chunks) :
            LET c == html_chunks[k]
            IN c.id # HeadId =>
                 /\ c.size = SumLen(c.content)
                 /\ c.size > ChunkSizeLimit => (IsPart(c) /\ Len(InnerOf(c)) = 1)
                 /\ (IsPart(c) /\ Len(InnerOf(c)) >= 2) => c.size <= ChunkSizeLimit

SizeBoundWithWrapperWitness ==
    /\ pc = "split_returned"
    /\ \E k \in 1..Len(html_chunks) :
         /\ IsPart(html_chunks[k])
         /\ Len(InnerOf(html_chunks[k])) = 1
         /\ InnerOf(html_chunks[k])[1].len <= ChunkSizeLimit
         /\ html_chunks[k].size > ChunkSizeLimit
    /\ \E k \in 1..Len(html_chunks) :
         /\ IsPart(html_chunks[k])
         /\ Len(InnerOf(html_chunks[k])) = 2
         /\ html_chunks[k].size = ChunkSizeLimit

\* C14: when an element larger than max_chunk_size is sub-split, the inner
\* contents of its sub-chunks, concatenated in sub-index order, are the
\* element's inner content, and every sub-chunk is wrapped in the element's
\* opening tag and closing tag.
SubSplitPreservesContent ==
    pc = "split_returned" =>
        LET els == FindStructuralElements(document.body)
        IN \A k \in 1..Len(els) :
             SumLen(StrElement(els[k])) > ChunkSizeLimit =>
               LET parts == PartsOf(k - 1)
               IN /\ ConcatInner(parts) = InnerContent(els[k])
                  /\ \A j \in 1..Len(parts) :
                       /\ parts[j].id = SubSectionId(k - 1, j - 1)
                       /\ Head(parts[j].content) = OpeningTag(els[k])
                       /\ parts[j].content[Len(parts[j].content)] = ClosingTag(els[k])

\* C15: for a document in which no element is sub-split, reconstruct_html of
\* the pass-through results of split_html is the doctype/html/body wrapper
\* around the head chunk's content followed by the body chunks' contents,
\* unchanged and in chunk order.
RECURSIVE ChunkContentsFrom(_, _)
ChunkContentsFrom(chunkSeq, k) ==
    IF k > Len(chunkSeq) THEN <<>>
    ELSE chunkSeq[k].content \o ChunkContentsFrom(chunkSeq, k + 1)

RoundTrip ==
    (pc = "reconstruct_returned" /\ \A k \in 1..Len(html_chunks) : ~IsPart(html_chunks[k])) =>
        /\ html_chunks[1].id = HeadId
        /\ \A k \in 2..Len(html_chunks) : html_chunks[k].id # HeadId
        /\ reconstructed[1].piece = "literal"
        /\ reconstructed[1].kind \in (OriginalDoctypes \ {""}) \cup {"<!DOCTYPE html>"}
        /\ Tail(reconstructed) =
             <<Literal("<html>")>> \o html_chunks[1].content \o <<Literal("<body>")>>
             \o ChunkContentsFrom(html_chunks, 2) \o <<Literal("</body></html>")>>

RoundTripWitness ==
    /\ pc = "reconstruct_returned"
    /\ Len(html_chunks) = 3
    /\ \A k \in 1..Len(html_chunks) : ~IsPart(html_chunks[k])
    /\ html_chunks[2].content # html_chunks[3].content
    /\ document.has_head
    /\ reconstructed[1].kind # "<!DOCTYPE html>"

\* ---------------------------------------------------------- fixer claims
\* C18: an error string is classified, whatever its letter case, by the first
\* keyword it contains in the order brand, contact/email/phone, address,
\* product, language/russian/english; an error with none of them gives no
\* issue, and an error gives at most one issue.
ClassifiedByTableOrder ==
    pc = "classify_returned" =>
        LET has(k) == \E w \in validation_error : w.text = k
            expected ==
                IF has("brand") THEN "brand_mismatch"
                ELSE IF has("contact") \/ has("email") \/ has("phone") THEN "contact_mismatch"
                ELSE IF has("address") THEN "address_mismatch"
                ELSE IF has("product") THEN "product_mismatch"
                ELSE IF has("language") \/ has("russian") \/ has("english")
                     THEN "language_mismatch"
                ELSE "none"
        IN /\ classified_issue.issue_type = expected
           /\ (expected = "none") <=> (classified_issue = NoIssue)

\* how often an issue occurs in a list of issues, and in the log's calls
CountIn(issueSeq, x) == Cardinality({ k \in DOMAIN issueSeq : issueSeq[k] = x })
CallsOf(x) == Cardinality({ k \in DOMAIN fix_log : fix_log[k].issue = x })

\* SeverityLevel, in the order of the enum: CRITICAL, MAJOR, MINOR
SeverityRank(severity) ==
    CASE severity = "critical" -> 1
      [] severity = "major" -> 2
      [] severity = "minor" -> 3

\* C19: the fixer calls of one apply_targeted_fixes run never go from a less
\* severe issue back to a more severe one (every CRITICAL issue's fixer runs
\* before every MAJOR one's, every MAJOR one's before every MINOR one's), and
\* when the run returns every issue's fixer has been called exactly as often
\* as the issue is in the list, once for each entry.
CriticalBeforeMajorBeforeMinor ==
    /\ \A i, j \in DOMAIN fix_log :
          i < j => SeverityRank(fix_log[i].issue.severity)
                     <= SeverityRank(fix_log[j].issue.severity)
    /\ pc = "apply_returned" =>
          /\ Len(fix_log) = Len(issues)
          /\ \A k \in DOMAIN issues : CallsOf(issues[k]) = CountIn(issues, issues[k])

\* a returned run whose list had a MAJOR issue in front of a CRITICAL one
CriticalBeforeMajorBeforeMinorWitness ==
    /\ pc = "apply_returned"
    /\ Len(issues) >= 2
    /\ issues[1].severity = "major"
    /\ issues[2].severity = "critical"
    /\ fix_log[1].issue.severity = "critical"
    /\ fix_log[2].issue.severity = "major"

\* C20: a fixer call that raised left the document as it was; the call after
\* it was given that same document; and the run returns only after the fixer
\* of every issue of the sorted list has been called, in that order.
RaiseSkipsOneFix ==
    /\ \A k \in DOMAIN fix_log :
          /\ fix_log[k].outcome = "raised" => fix_log[k].after = fix_log[k].before
          /\ k > 1 => fix_log[k].before = fix_log[k - 1].after
          /\ fix_log[k].issue = sorted_issues[k]
    /\ pc = "apply_returned" =>
          /\ Len(fix_log) = Len(sorted_issues)
          /\ fix_log # <<>> => fixed_html = fix_log[Len(fix_log)].after

\* a returned run whose first fixer raised and whose second changed the document
RaiseSkipsOneFixWitness ==
    /\ pc = "apply_returned"
    /\ Len(fix_log) >= 2
    /\ fix_log[1].outcome = "raised"
    /\ fix_log[2].outcome = "returned"
    /\ fix_log[2].after # fix_log[2].before
    /\ fixed_html = fix_log[2].after

\* the texts of a document in which a brand name can be read
BrandTextsOf(html) == {html.heading, html.paragraph}

\* C17: the error "Brand mismatch: found Lumina Jewelry" alone gives exactly
\* one issue, of type BRAND and severity CRITICAL; and when that issue's fixer
\* returns from a document that held the text "Lumina Jewelry", the document
\* it returns holds that text nowhere and holds the spec's brand name.
BrandScenario ==
    /\ pc # "analyze_call" /\ validation_errors = <<BrandMismatchError>> =>
          /\ Len(issues) = 1
          /\ issues[1].issue_type = "brand_mismatch"
          /\ issues[1].severity = "critical"
    /\ \A k \in DOMAIN fix_log :
          ( /\ fix_log[k].issue.description = BrandMismatchError
            /\ fix_log[k].outcome = "returned"
            /\ GenericBrand \in BrandTextsOf(fix_log[k].before) )
          => /\ GenericBrand \notin BrandTextsOf(fix_log[k].after)
             /\ SpecBrand \in BrandTextsOf(fix_log[k].after)

\* C16: when a second call of apply_targeted_fixes, on what the first call
\* returned and with the same issues and spec, returns, and no fixer raised and
\* no issue went to the LLM, the document is what the first call returned.
FixesIdempotent ==
    ( /\ pc = "apply_returned"
      /\ fix_pass = 2
      /\ \A k \in DOMAIN fix_log :
            /\ fix_log[k].outcome = "returned"
            /\ fix_log[k].issue.issue_type # "language_mismatch" )
    => fixed_html = first_fixed_html

\* ------------------------------------------------ coordinator claims, again
\* C27: a validation pass that finds no chunk in need of regeneration is the
\* coordinator's last step: it returns with the result sequence that pass
\* validated, starts no filler call, and nothing happens after the return.
CleanPassReturns ==
    [][ /\ pc # "done"
        /\ ( /\ validation_passes' = validation_passes + 1
             /\ IdentifyFailedChunkIds(chunk_results) = {} )
           => /\ pc' = "done"
              /\ chunk_results' = chunk_results
              /\ results_validated'
              /\ total_calls' = total_calls
              /\ ~retry_inflight' ]_vars

\* the coordinator has returned after a second pass that found nothing, one
\* chunk having been filled again in between
CleanPassReturnsWitness ==
    /\ pc = "done"
    /\ validation_passes = 2
    /\ failed_chunk_ids = {}
    /\ results_validated
    /\ max_retry_attempts = 2
    /\ \E i \in 1..N : total_calls[i] = 2

\* the level of a prompt's instructions: none, the reminder to use the exact
\* values, the mandatory replacements with the literal placeholder names
InstructionLevel(prompt) ==
    CASE prompt.strict_instructions = "" -> 0
      [] prompt.strict_instructions = "Focus on using EXACT values" -> 1
      [] prompt.strict_instructions = "CRITICAL MANDATORY REPLACEMENTS" -> 2

\* C28: every filler call of retry round k (attempt = k - 1 in the loop) is
\* made with attempt number k; at k = 1 its instructions are the reminders to
\* use the exact values, at k >= 2 the mandatory replacements naming the
\* literal placeholders; and the level of a call is never below the level of
\* the call before it.
RoundInstructions ==
    [][ (retry_inflight' /\ ~retry_inflight) =>
          /\ retry_prompt'.retry_attempt = attempt + 1
          /\ attempt + 1 = 1 =>
                /\ retry_prompt'.strict_instructions = "Focus on using EXACT values"
                /\ retry_prompt'.enhancement_text = "CRITICAL: Use exact"
          /\ attempt + 1 >= 2 =>
                retry_prompt'.strict_instructions = "CRITICAL MANDATORY REPLACEMENTS"
          /\ attempt + 1 = 2 => retry_prompt'.enhancement_text = "MANDATORY REPLACEMENT"
          /\ InstructionLevel(retry_prompt') >= InstructionLevel(retry_prompt) ]_vars

\* a filler call of the third retry round is awaited
RoundInstructionsWitness ==
    /\ pc = "retry"
    /\ retry_inflight
    /\ attempt = 2
    /\ retry_prompt.retry_attempt = 3
    /\ retry_prompt.strict_instructions = "CRITICAL MANDATORY REPLACEMENTS"

\* --------------------------------------------------- fixer claims, again
\* C25: a call of the LANGUAGE fixer that returns gives the LLM's answer as
\* the document when the answer without its outer blanks has more than
\* MinLength characters, and the document it was given, unchanged, when the
\* answer is shorter, exactly MinLength long, empty, or the call failed.
LanguageFixKeepsMinimum ==
    \A k \in DOMAIN fix_log :
        ( /\ fix_log[k].issue.issue_type = "language_mismatch"
          /\ fix_log[k].outcome = "returned" )
        => IF fix_log[k].answer \in {"answer_a", "answer_b"}
           THEN /\ fix_log[k].after.language = fix_log[k].answer
                /\ StrippedLen(fix_log[k].answer) > 1000
           ELSE fix_log[k].after = fix_log[k].before

\* an answer of 1000 characters between blanks was turned down, after the
\* other fixers had changed the document
LanguageFixKeepsMinimumWitness ==
    \E k \in DOMAIN fix_log :
        /\ fix_log[k].issue.issue_type = "language_mismatch"
        /\ fix_log[k].outcome = "returned"
        /\ fix_log[k].answer = "short"
        /\ ResultLen(fix_log[k].answer) > 1000
        /\ fix_log[k].after = fix_log[k].before
        /\ fix_log[k].before # final_html

\* ------------------------------------------------------------ node claims
\* the first line of a document
FirstLine(html) == IF html.doctypes = <<>> THEN "<html>" ELSE html.doctypes[1]

\* C21 as stated: with a template, chunked_modification_node returns either
\* the post-processed reconstructed document or, with an error message added
\* to the trail, the template's html as it came.
FallsBackToOriginal ==
    (pc = "node_returned" /\ selected_template.present) =>
        \/ /\ reconstructed # <<>>
           /\ final_html = FixHtmlStructure(reconstructed)
        \/ /\ final_html = OriginalHtml(selected_template)
           /\ messages = <<ErrorMessage>>

\* C21 as amended: with a template, chunked_modification_node returns the
\* post-processed reconstructed document, or the fixer's minimal valid html
\* when the post-processing failed inside the fixer (both with an info
\* message), or, when content is missing or splitting, filling or
\* reconstruction failed, the template's html as it came with an error
\* message; the trail grows by exactly one message.
FallsBackToOriginalOrMinimal ==
    /\ pc = "node_returned" => Len(messages) = 1
    /\ (pc = "node_returned" /\ selected_template.present) =>
        \/ /\ reconstructed # <<>>
           /\ final_html \in {FixHtmlStructure(reconstructed), MinimalValidHtml}
           /\ messages = <<InfoMessage>>
        \/ /\ final_html = OriginalHtml(selected_template)
           /\ messages = <<ErrorMessage>>
    /\ (pc = "node_returned" /\ reconstructed = <<>>) => messages = <<ErrorMessage>>

\* filling failed after a template with a doctype of its own had been split
FallsBackToOriginalOrMinimalWitness ==
    /\ pc = "node_returned"
    /\ selected_template.present
    /\ html_chunks # <<>>
    /\ chunk_results = <<>>
    /\ final_html = OriginalHtml(selected_template)
    /\ final_html.doctypes = <<"<!DOCTYPE html PUBLIC>">>
    /\ messages = <<ErrorMessage>>

\* C24: the document the node assembled begins with the template's own
\* doctype line, as written there, when the template has one, and with
\* <!DOCTYPE html> when it has none.
DoctypeKept ==
    (pc = "node_returned" /\ final_html.source = "fixed_html") =>
        /\ reconstructed[1].kind = (IF selected_template.doctypes = <<>>
                                    THEN "<!DOCTYPE html>"
                                    ELSE selected_template.doctypes[1])
        /\ FirstLine(final_html) = (IF selected_template.doctypes = <<>>
                                    THEN "<!DOCTYPE html>"
                                    ELSE selected_template.doctypes[1])

\* ------------------------------------------------- two-document claims
\* C22: with two documents filled at once through the same instance, the
\* filler calls in flight over both documents are never more than 3.
GlobalLimit ==
    pc = "calls" =>
        CallInFlight(calls["first"]) + CallInFlight(calls["second"]) <= SemaphoreWidth

\* a result made from this chunk: the pass-through of a non-modifiable
\* chunk, or what some end of a filler call gives for it
OwnResult(chunk, result) ==
    \/ result = CreateUnmodifiedResult(chunk)
    \/ \E outcome \in CallOutcomes : result = ResultOfOutcome(chunk, outcome)

\* the result list of a call has one result of its own for each of its chunks
OwnResults(call) ==
    call.chunk_results # <<>> =>
        /\ Len(call.chunk_results) = Len(call.chunks)
        /\ \A k \in 1..Len(call.chunks) : OwnResult(call.chunks[k], call.chunk_results[k])

\* C23: with two documents processed at once by the same coordinator, in
\* every step the result list of each document holds only results made from
\* its own chunks, and a step of one document (a round-0 fill, a retry, a
\* merge) leaves the gathered, retried and merged results of the other as
\* they were.
DocumentsIndependent ==
    [][ pc = "calls" =>
          \A d \in DocumentNames :
              /\ OwnResults(calls'[d])
              /\ calls'[d] # calls[d] =>
                    calls'[OtherDocument(d)] = calls[OtherDocument(d)] ]_vars

\* both documents have merged a retry round in which each retried a chunk
\* with the id the other retried, and the first document is still running
\* when the second is done
DocumentsIndependentWitness ==
    /\ pc = "calls"
    /\ \A d \in DocumentNames :
          /\ calls[d].attempt = 1
          /\ calls[d].retry_results # <<>>
    /\ \E k \in 1..Len(calls["first"].retry_results) :
       \E j \in 1..Len(calls["second"].retry_results) :
          /\ calls["first"].retry_results[k].chunk_id = calls["second"].retry_results[j].chunk_id
          /\ calls["first"].retry_results[k] # calls["second"].retry_results[j]
    /\ calls["second"].pc = "done"
    /\ calls["first"].pc = "loop"

\* ------------------------------------------------------- parser claims
\* a response of unexpected shape: not a dict, a dict whose 'ValidationResult'
\* is no dict, or a dict with a field that cannot be brought to its type
UnexpectedShape(r) ==
    \/ r.kind = "not_dict"
    \/ /\ r.kind = "dict"
       /\ \/ ~r.mapping
          \/ Float(GetScore(r)).raised # ""
          \/ "list_of_other" \in {r.errors, r.warnings}

\* C26 as stated: a validator response of unexpected shape gives score 0.0,
\* a descriptive error string and is_valid = false.
UnexpectedShapeFails ==
    (pc = "validated" /\ UnexpectedShape(response)) =>
        /\ final_validation.score = 0
        /\ final_validation.errors \in DescriptiveErrors
        /\ ~final_validation.is_valid

\* C26 as amended: a validator response of unexpected shape gives a
\* descriptive error string; the score is 0.0 and is_valid false when the
\* response is no mapping or holds no mapping or its score cannot be read as
\* a number; when only errors or warnings cannot be brought to a list of
\* strings, the score is the one of the response and is_valid says whether
\* it reaches 0.7.
UnexpectedShapeFallsBack ==
    (pc = "validated" /\ UnexpectedShape(response)) =>
        /\ final_validation.errors \in DescriptiveErrors
        /\ final_validation.is_valid <=> final_validation.score >= 700
        /\ final_validation.score =
              (IF response.kind = "dict" /\ response.mapping
                     /\ response.score.form # "absent" /\ Float(response.score).raised = ""
               THEN Float(response.score).value
               ELSE 0)

\* a dict whose errors are not strings and whose score is 0.85 has been
\* parsed: the result keeps the score and is valid
UnexpectedShapeFallsBackWitness ==
    /\ pc = "validated"
    /\ response.kind = "dict"
    /\ response.errors = "list_of_other"
    /\ response.score = [form |-> "numeric_text", value |-> 850]
    /\ final_validation.errors = ParseError
    /\ final_validation.score = 850
    /\ final_validation.is_valid

\* ---------------------------------------------------- large element claims
\* the chunks made of the only element of the document
ElementChunks == Tail(html_chunks)
TheElement == document.body[1]

RECURSIVE InnerOfParts(_)
\* the inner contents of sub-chunks, one after the other
InnerOfParts(parts) ==
    IF parts = <<>> THEN <<>>
    ELSE SubSeq(Head(parts).content, 2, Len(Head(parts).content) - 1)
           \o InnerOfParts(Tail(parts))

\* the <main> of the scenario has been split
ScenarioSplitDone ==
    /\ pc # "scenario_call"
    /\ TheElement.attrs = "plain"
    /\ SumLen(StrElement(TheElement)) = ScenarioSize

EmptyWrapperEmitted ==
    (/\ pc # "scenario_call"
     /\ TheElement.children = <<>>
     /\ SumLen(StrElement(TheElement)) > ScenarioLimit) =>
        /\ Len(ElementChunks) = 1
        /\ ElementChunks[1].content = <<GetOpeningTag(TheElement), ClosingTag(TheElement)>>

\* ------------------------------------------------------ chunk identity claims
\* C31: the chunks split_html returns have pairwise distinct ids (head,
\* section_i for an unsplit element, section_i_j for sub-chunk j of element
\* i) and the size of each is the length of its content.
UniqueIdsAndSizes ==
    pc # "split_call" =>
        /\ \A k, j \in 1..Len(html_chunks) :
              html_chunks[k].id = html_chunks[j].id => k = j
        /\ html_chunks[1].id = HeadId
        /\ \A k \in 2..Len(html_chunks) :
              html_chunks[k].id[1] = "section"
              /\ Len(html_chunks[k].id) = (IF html_chunks[k].chunk_type.part THEN 3 ELSE 2)
        /\ \A k \in 1..Len(html_chunks) :
              html_chunks[k].size = SumLen(html_chunks[k].content)

\* two elements have been split, the second into two sub-chunks
UniqueIdsAndSizesWitness ==
    /\ pc = "split_returned"
    /\ Len(document.body) = 2
    /\ \E k \in 2..(Len(html_chunks) - 1) :
          /\ html_chunks[k].id = SubSectionId(1, 0)
          /\ html_chunks[k + 1].id = SubSectionId(1, 1)
    /\ html_chunks[2].id \in {SectionId(0), SubSectionId(0, 0)}

\* ------------------------------------------------------ body order claims
\* the place of a tag name in (header, nav, main, section, article, aside,
\* footer), 0 for any other name
StructuralRank(tag) ==
    IF \E r \in 1..Len(StructuralTags) : StructuralTags[r] = tag
    THEN CHOOSE r \in 1..Len(StructuralTags) : StructuralTags[r] = tag
    ELSE 0

\* the positions in the body of the children the chunks are made of:
\* the children with a structural tag name, or, when there is none, the
\* first ten children
DiscoveredPositions(b) ==
    IF \E k \in 1..Len(b) : StructuralRank(b[k].tag) > 0
    THEN { k \in 1..Len(b) : StructuralRank(b[k].tag) > 0 }
    ELSE { k \in 1..Len(b) : k <= 10 }

RECURSIVE DiscoveryOrder(_, _)
\* those positions, tag-name-major and position-minor
DiscoveryOrder(b, positions) ==
    IF positions = {} THEN <<>>
    ELSE LET first == CHOOSE k \in positions : \A j \in positions :
                          \/ StructuralRank(b[k].tag) < StructuralRank(b[j].tag)
                          \/ StructuralRank(b[k].tag) = StructuralRank(b[j].tag) /\ k <= j
         IN <<first>> \o DiscoveryOrder(b, positions \ {first})

RECURSIVE StrChildren(_, _)
\* str(child) of the children from child k on
StrChildren(element, k) ==
    IF k > Len(element.children) THEN <<>>
    ELSE <<Str(element.children[k])>> \o StrChildren(element, k + 1)

RECURSIVE PartInners(_, _, _)
\* the inner contents of the chunks with section index i, in chunk order
PartInners(chunkSeq, i, k) ==
    IF k > Len(chunkSeq) THEN <<>>
    ELSE (IF chunkSeq[k].id[2] = i
          THEN SubSeq(chunkSeq[k].content, 2, Len(chunkSeq[k].content) - 1)
          ELSE <<>>) \o PartInners(chunkSeq, i, k + 1)

\* the chunks after the head are those of the discovered children, in
\* discovery order, each child unsplit or in sub-chunks of its children in
\* child order
ChunksFollowDiscovery ==
    LET b == document.body
        order == DiscoveryOrder(b, DiscoveredPositions(b))
    IN /\ html_chunks[1].id = HeadId
       /\ \A k \in 2..Len(html_chunks) :
             /\ html_chunks[k].id[1] = "section"
             /\ html_chunks[k].id[2] \in 0..(Len(order) - 1)
             /\ k > 2 => html_chunks[k - 1].id[2] <= html_chunks[k].id[2]
             /\ LET element == b[order[html_chunks[k].id[2] + 1]]
                IN IF html_chunks[k].chunk_type.part
                   THEN /\ html_chunks[k].content[1] = GetOpeningTag(element)
                        /\ SumLen(StrElement(element)) > ChunkSizeLimit
                   ELSE html_chunks[k].content = StrElement(element)
       /\ \A i \in 1..Len(order) :
             /\ \E k \in 2..Len(html_chunks) : html_chunks[k].id[2] = i - 1
             /\ SumLen(StrElement(b[order[i]])) > ChunkSizeLimit =>
                   PartInners(html_chunks, i - 1, 2) = StrChildren(b[order[i]], 1)

\* C32: split_html returns the head chunk first, then the body chunks in
\* discovery order: the direct children with a structural tag name, tag
\* name by tag name and in document order within a name, the sub-chunks of a
\* split element in child order; with no such child, the first 10 direct
\* children of the body in document order.
DiscoveryOrderKept ==
    pc # "body_call" =>
        /\ pc # "split_raised"
        /\ ChunksFollowDiscovery

RECURSIVE CountTags(_, _)
\* how many opening tags with a name in tags a content holds
CountTags(content, tags) ==
    IF content = <<>> THEN 0
    ELSE (IF Head(content).piece = "open" /\ Head(content).tag \in tags THEN 1 ELSE 0)
         + CountTags(Tail(content), tags)

\* C39: every body chunk is the serialization of a child selected by
\* _find_structural_elements, or a part of one: with a structural child in
\* the body, the children of any other name are in no chunk, in fallback
\* mode the children after the tenth are in no chunk, and the reconstructed
\* document holds the head and the chunks' contents only.
UnselectedChildrenLost ==
    /\ pc \in {"split_returned", "reconstruct_returned"} =>
          /\ ChunksFollowDiscovery
          /\ (\E k \in 1..Len(document.body) : StructuralRank(document.body[k].tag) > 0) =>
                \A k \in 2..Len(html_chunks) : CountTags(html_chunks[k].content, {"div", "p"}) = 0
          /\ (\A k \in 1..Len(document.body) : StructuralRank(document.body[k].tag) = 0) =>
                Len(html_chunks) = 1 + (IF Len(document.body) < 10 THEN Len(document.body) ELSE 10)
    /\ pc = "reconstruct_returned" =>
          /\ Tail(reconstructed) =
                <<Literal("<html>")>> \o html_chunks[1].content \o <<Literal("<body>")>>
                \o ChunkContentsFrom(html_chunks, 2) \o <<Literal("</body></html>")>>
          /\ CountTags(reconstructed, {"div", "p"}) =
                (IF \E k \in 1..Len(document.body) : StructuralRank(document.body[k].tag) > 0
                 THEN 0
                 ELSE IF Len(document.body) < 10 THEN Len(document.body) ELSE 10)

\* a body of eleven children without structural name has been split and put
\* together again
UnselectedChildrenLostWitness ==
    /\ pc = "reconstruct_returned"
    /\ Len(document.body) = 10 + 1
    /\ document.body[10 + 1] = SmallElement("p")
    /\ document.body[10] = SmallElement("div")
    /\ Len(html_chunks) = 1 + 10
    /\ CountTags(reconstructed, {"p"}) < CountTags(ChunkContentsFrom(html_chunks, 2), {"p"}) + 1

\* ------------------------------------------------------ fixer result claims
\* the text holds a known generic brand, in some letter case
HoldsGenericBrand(text) == Lower(text) = Lower(GenericBrand)

\* C33: when the BRAND fixer returns, no text of the document it returns
\* holds a known generic brand string, in whatever letter case and wherever
\* in the document it stood, and the texts that held one hold the spec's
\* brand name.
BrandReplacedEverywhere ==
    \A k \in DOMAIN fix_log :
        (fix_log[k].issue.issue_type = "brand_mismatch" /\ fix_log[k].outcome = "returned")
        => /\ \A text \in BrandTextsOf(fix_log[k].after) : ~HoldsGenericBrand(text)
           /\ HoldsGenericBrand(fix_log[k].before.heading) => fix_log[k].after.heading = SpecBrand
           /\ HoldsGenericBrand(fix_log[k].before.paragraph) => fix_log[k].after.paragraph = SpecBrand

\* ------------------------------------------------------- the contact fixer
\* Documents whose e-mail and telephone elements are hyperlinks or not and
\* hold an address of another shop, a placeholder address, or the spec's own
\* data already.
ContactEmails == {"sales@old-shop.ru", "test@example.com", SpecEmail}
ContactPhones == {"+7 900 000-00-00", SpecPhone}
EmailTags == {"a", "span"}
PhoneTags == {"a", "p"}

ContactDocuments ==
    { [StaleDocument(SpecBrand, SpecBrand) EXCEPT
         !.email = e, !.email_tag = et,
         !.email_href = IF et = "a" THEN Href("mailto", e) ELSE NoHref,
         !.phone = ph, !.phone_tag = pt,
         !.phone_href = IF pt = "a" THEN Href("tel", ph) ELSE NoHref] :
      e \in ContactEmails, et \in EmailTags, ph \in ContactPhones, pt \in PhoneTags }

ContactInit ==
    /\ chunks = <<>>
    /\ max_retry_attempts = DefaultMaxRetryAttempts
    /\ pc = "analyze_call"
    /\ task = <<>>
    /\ semaphore = SemaphoreWidth
    /\ gathered = <<>>
    /\ chunk_results = <<>>
    /\ attempt = 0
    /\ failed_chunk_ids = {}
    /\ failed_chunks = <<>>
    /\ retry_results = <<>>
    /\ retry_inflight = FALSE
    /\ retry_prompt = NoPrompt
    /\ round_calls = <<>>
    /\ total_calls = <<>>
    /\ last_outcome = <<>>
    /\ validation_passes = 0
    /\ results_validated = FALSE
    /\ merged_results = <<>>
    /\ ValidatorIdle
    /\ ChunkerIdle
    /\ validation_error = {}
    /\ classified_issue = <<>>
    /\ final_html \in ContactDocuments
    /\ validation_errors \in ErrorLists(MaxErrors)
    /\ page_spec \in [has_products : BOOLEAN]
    /\ issues = <<>>
    /\ sorted_issues = <<>>
    /\ issue_index = 0
    /\ fixed_html = <<>>
    /\ fix_log = <<>>
    /\ fix_pass = 0
    /\ first_fixed_html = <<>>
    /\ NodeIdle
    /\ ParserIdle
    /\ CallsIdle
    /\ GraphIdle

ContactSpec == ContactInit /\ [][FixerNext]_vars

\* C34: when the CONTACT fixer returns, the e-mail element (an a or a span)
\* whose text was an address other than the spec's, of whatever domain, holds
\* the spec's e-mail address, the telephone element (an a or a p) whose text
\* was a number other than the spec's holds the spec's number, and where the
\* element is a hyperlink its href is mailto:<email> or tel:<phone>.
ContactReplaced ==
    \A k \in DOMAIN fix_log :
        (fix_log[k].issue.issue_type = "contact_mismatch" /\ fix_log[k].outcome = "returned")
        => LET before == fix_log[k].before
               after == fix_log[k].after
           IN /\ before.email # SpecEmail =>
                    /\ after.email = SpecEmail
                    /\ before.email_tag = "a" => after.email_href = Href("mailto", SpecEmail)
              /\ before.phone # SpecPhone =>
                    /\ after.phone = SpecPhone
                    /\ before.phone_tag = "a" => after.phone_href = Href("tel", SpecPhone)

\* --------------------------------------------------------- failed set claims
\* C35: across the rounds of one document the failed set never grows: the
\* ids the validation pass of a round after the first flags were all flagged
\* by the pass of the round before, and the merge of a round leaves the result
\* of every chunk that was not in the failed set as it was.
FailedSetNeverGrows ==
    [][ /\ (pc = "loop" /\ attempt >= 1 /\ LoopContinues(attempt, max_retry_attempts))
            => failed_chunk_ids' \subseteq failed_chunk_ids
        /\ (pc = "retry" /\ pc' = "loop")
            => /\ Len(chunk_results') = Len(chunk_results)
               /\ \A k \in DOMAIN chunk_results :
                     chunk_results[k].chunk_id \notin failed_chunk_ids
                     => chunk_results'[k] = chunk_results[k] ]_vars

\* the second round retries one chunk of a document of which the first round
\* retried two
FailedSetNeverGrowsWitness ==
    /\ pc = "retry"
    /\ attempt = 1
    /\ validation_passes = 2
    /\ Cardinality(failed_chunk_ids) = 1
    /\ \E i \in 1..N : total_calls[i] >= 2 /\ chunks[i].id \notin failed_chunk_ids

\* ------------------------------------------------- the orchestrator workflow
\* WhitePageOrchestratorGraph.CHUNKING_THRESHOLD
ChunkingThreshold == 15000

\* ValidationDecisionMaker.CRITICAL_THRESHOLD and ACCEPTABLE_THRESHOLD, in
\* thousandths
CriticalThreshold == 500
AcceptableThreshold == 700

\* The errors of a document-level validation result, by what the decision
\* maker reads of them: how many hold one of its minor keywords (contact,
\* brand, email, phone, title, alt), how many one of its critical keywords
\* (corrupt, malformed, invalid syntax, broken), how many neither.
GraphErrors == [minor : {0, 1, 3}, critical : {0, 3}, other : {0, 2, 9}]
ErrorCount(errors) == errors.minor + errors.critical + errors.other

\* what create_validation_result can return to the validation node
GraphValidationResults ==
    [is_valid : BOOLEAN, score : {300, 650, 700, 850}, errors : GraphErrors]

\* ValidationDecisionMaker.should_apply_targeted_fixes
ShouldApplyTargetedFixes(validation_result) ==
    LET score == validation_result.score
        error_count == ErrorCount(validation_result.errors)
    IN IF score >= AcceptableThreshold THEN FALSE
       ELSE IF score < CriticalThreshold /\ error_count > 8 THEN FALSE
       ELSE /\ validation_result.errors.critical <= 2
            /\ validation_result.errors.minor * 10 >= error_count * 6

\* create_initial_state
InitialState ==
    [node |-> "template_selection",
     ran |-> {},
     final_html |-> "",
     final_validation |-> [is_valid |-> FALSE, score |-> 0,
                           errors |-> [minor |-> 0, critical |-> 0, other |-> 1]],
     original_template_size |-> 0,
     should_retry_pipeline |-> FALSE,
     should_apply_targeted_fixes |-> FALSE,
     should_proceed_to_uniqueness |-> FALSE]

\* WhitePageOrchestratorGraph._route_modification
RouteModification(state) ==
    IF state.original_template_size > ChunkingThreshold
    THEN "chunked_modification"
    ELSE "standard_modification"

\* the conditional edge after validation
RouteAfterValidationRetry(state) ==
    IF state.should_apply_targeted_fixes THEN "targeted_fixing"
    ELSE IF state.should_retry_pipeline THEN "template_selection"
    ELSE "uniqueness"

RouteAfterValidation(state) ==
    IF state.should_apply_targeted_fixes THEN "targeted_fixing" ELSE "uniqueness"

\* the runner: the node has returned state, the next node is to
Goes(state, from, to) ==
    [state EXCEPT !.node = to, !.ran = @ \cup {from}]

graphFrame == <<chunks, max_retry_attempts, pc, task, semaphore, gathered,
                chunk_results, attempt, failed_chunk_ids, failed_chunks,
                retry_results, retry_inflight, retry_prompt, round_calls,
                total_calls, last_outcome, validation_passes, results_validated,
                merged_results, validatorVars, chunkerVars, classifierVars,
                fixerVars, nodeVars, parserVars, calls>>

\* generate_whitepage: compiled_graph.ainvoke(create_initial_state(spec))
GraphInit ==
    /\ chunks = <<>>
    /\ max_retry_attempts = DefaultMaxRetryAttempts
    /\ pc = "graph"
    /\ task = <<>>
    /\ semaphore = SemaphoreWidth
    /\ gathered = <<>>
    /\ chunk_results = <<>>
    /\ attempt = 0
    /\ failed_chunk_ids = {}
    /\ failed_chunks = <<>>
    /\ retry_results = <<>>
    /\ retry_inflight = FALSE
    /\ retry_prompt = NoPrompt
    /\ round_calls = <<>>
    /\ total_calls = <<>>
    /\ last_outcome = <<>>
    /\ validation_passes = 0
    /\ results_validated = FALSE
    /\ merged_results = <<>>
    /\ ValidatorIdle
    /\ ChunkerIdle
    /\ ClassifierIdle
    /\ FixerIdle
    /\ NodeIdle
    /\ ParserIdle
    /\ CallsIdle
    /\ graph = InitialState

\* template_selection_node, and the edge to content_generation
TemplateSelection(size) ==
    /\ pc = "graph"
    /\ graph.node = "template_selection"
    /\ graph' = Goes([graph EXCEPT !.original_template_size = size],
                     "template_selection", "content_generation")
    /\ UNCHANGED graphFrame

\* content_generation_node, and the conditional edge _route_modification
ContentGeneration ==
    /\ pc = "graph"
    /\ graph.node = "content_generation"
    /\ graph' = Goes(graph, "content_generation", RouteModification(graph))
    /\ UNCHANGED graphFrame

\* template_modification_node, and the edge to validation
StandardModification(html) ==
    /\ pc = "graph"
    /\ graph.node = "standard_modification"
    /\ graph' = Goes([graph EXCEPT !.final_html = html],
                     "standard_modification", "validation")
    /\ UNCHANGED graphFrame

\* chunked_modification_node, and the edge to validation
ChunkedModification(html) ==
    /\ pc = "graph"
    /\ graph.node = "chunked_modification"
    /\ graph' = Goes([graph EXCEPT !.final_html = html],
                     "chunked_modification", "validation")
    /\ UNCHANGED graphFrame

\* validation_node's returns without a validation result of the chain: no
\* final_html, or an exception
ValidationErrorState(state) ==
    [state EXCEPT
       !.final_validation = [is_valid |-> FALSE, score |-> 0,
                             errors |-> [minor |-> 0, critical |-> 0, other |-> 1]],
       !.should_retry_pipeline = TRUE,
       !.should_apply_targeted_fixes = FALSE]

\* validation_node's return with the chain's validation result
ValidationState(state, validation_result) ==
    LET should_apply_fixes == ~validation_result.is_valid
                                /\ ShouldApplyTargetedFixes(validation_result)
        should_retry == ~validation_result.is_valid
                          /\ ~ShouldApplyTargetedFixes(validation_result)
    IN [state EXCEPT
          !.final_validation = validation_result,
          !.should_apply_targeted_fixes = should_apply_fixes,
          !.should_retry_pipeline = should_retry,
          !.should_proceed_to_uniqueness = validation_result.is_valid]

\* validation_node, and the conditional edge after it
Validation(raises, validation_result) ==
    /\ pc = "graph"
    /\ graph.node = "validation"
    /\ LET state == IF graph.final_html = "" \/ raises
                    THEN ValidationErrorState(graph)
                    ELSE ValidationState(graph, validation_result)
       IN graph' = Goes(state, "validation", RouteAfterValidation(state))
    /\ UNCHANGED graphFrame

\* targeted_fixing_node: _create_error_response, _create_success_response or
\* the return after apply_targeted_fixes; and the edge to validation
TargetedFixing(outcome) ==
    /\ pc = "graph"
    /\ graph.node = "targeted_fixing"
    /\ LET state ==
             IF graph.final_html = "" \/ outcome = "raise"
             THEN [graph EXCEPT !.should_retry_pipeline = TRUE,
                                !.should_apply_targeted_fixes = FALSE]
             ELSE [graph EXCEPT !.should_proceed_to_uniqueness = TRUE,
                                !.should_apply_targeted_fixes = FALSE,
                                !.final_html = IF outcome = "fixed" THEN "fixed page" ELSE @]
       IN graph' = Goes(state, "targeted_fixing", "validation")
    /\ UNCHANGED graphFrame

\* uniqueness_node, and the edge to html_rewriting
Uniqueness(raises) ==
    /\ pc = "graph"
    /\ graph.node = "uniqueness"
    /\ graph' = Goes([graph EXCEPT !.final_html = IF @ = "" \/ raises THEN @
                                                  ELSE "unique page"],
                     "uniqueness", "html_rewriting")
    /\ UNCHANGED graphFrame

\* html_rewriting_node, and the edge to END
HtmlRewriting(raises) ==
    /\ pc = "graph"
    /\ graph.node = "html_rewriting"
    /\ graph' = Goes([graph EXCEPT !.final_html = IF @ = "" \/ raises THEN @
                                                  ELSE "rewritten page"],
                     "html_rewriting", "END")
    /\ UNCHANGED graphFrame

GraphNext ==
    \/ \E size \in {ChunkingThreshold, ChunkingThreshold + 1} : TemplateSelection(size)
    \/ ContentGeneration
    \/ \E html \in {"", "page"} : StandardModification(html)
    \/ \E html \in {"", "page"} : ChunkedModification(html)
    \/ \E raises \in BOOLEAN : \E validation_result \in GraphValidationResults :
          Validation(raises, validation_result)
    \/ \E outcome \in {"no_issues", "fixed", "raise"} : TargetedFixing(outcome)
    \/ \E raises \in BOOLEAN : Uniqueness(raises)
    \/ \E raises \in BOOLEAN : HtmlRewriting(raises)

GraphSpec == GraphInit /\ [][GraphNext]_vars

\* the runner executes the next node as long as there is one
GraphFairSpec == GraphSpec /\ WF_vars(GraphNext)

\* C36: every run of the workflow reaches END, whatever the validator
\* answers: the cycle validation, targeted_fixing, validation is left after
\* finitely many turns for uniqueness and html_rewriting.
ReachesEnd == <>(graph.node = "END")

\* C37: after validation the workflow goes to targeted_fixing exactly when
\* should_apply_targeted_fixes is true and to uniqueness otherwise;
\* should_retry_pipeline sends it back to no stage: every stage but
\* validation and targeted_fixing runs at most once and validation runs again
\* only after targeted_fixing; and a document that fails validation without
\* being eligible for targeted fixes goes through uniqueness and
\* html_rewriting to END.
RoutedByFixFlagOnly ==
    /\ [][ /\ graph.node = "validation" =>
                /\ graph'.node = "targeted_fixing" <=> graph'.should_apply_targeted_fixes
                /\ graph'.node = "uniqueness" <=> ~graph'.should_apply_targeted_fixes
           /\ graph'.node \in graph.ran =>
                \/ graph.node = "validation" /\ graph'.node = "targeted_fixing"
                \/ graph.node = "targeted_fixing" /\ graph'.node = "validation" ]_vars
    /\ (graph.node = "uniqueness" /\ ~graph.final_validation.is_valid)
          ~> (graph.node = "END" /\ {"uniqueness", "html_rewriting"} \subseteq graph.ran)

\* a document that failed validation and was not eligible for targeted fixes
\* has gone through uniqueness and html_rewriting
RoutedByFixFlagOnlyWitness ==
    /\ pc = "graph"
    /\ graph.node = "END"
    /\ graph.should_retry_pipeline
    /\ ~graph.final_validation.is_valid
    /\ graph.final_html = "rewritten page"
    /\ "targeted_fixing" \notin graph.ran

\* ------------------------------------------------- answers that are no markup
\* The coordinator on the documents of RoundsSpec, with a filler whose answer
\* may be a text that does not start with '<' and end with '>'.
UnwrappedOutcomes == {"chatter", "filled_ok", "filled_generic"}

UnwrappedNext ==
    \/ \E i \in 1..N : TaskAcquire(i)
    \/ \E i \in 1..N : \E outcome \in UnwrappedOutcomes : FillerReturns(i, outcome)
    \/ GatherReturns
    \/ Validate
    \/ LoopExhausted
    \/ RetryNext
    \/ \E outcome \in UnwrappedOutcomes : RetryFillerReturns(outcome)
    \/ Merge

UnwrappedSpec == RoundsInit /\ [][UnwrappedNext]_vars

\* the result of chunk i's latest call
LatestResult(i) ==
    IF pc = "initial" THEN gathered[i]
    ELSE IF pc = "retry" /\ \E k \in DOMAIN retry_results :
                               retry_results[k].chunk_id = chunks[i].id
    THEN retry_results[CHOOSE k \in DOMAIN retry_results :
                           retry_results[k].chunk_id = chunks[i].id]
    ELSE chunk_results[i]

\* C38: when the filler's answer for a chunk is no markup (trimmed, it does
\* not start with '<' and end with '>'), the chunk's result holds the chunk's
\* original content and no error, and its validation_score is the structural
\* score of that content, not 0, in round 0 and in the retry rounds.
UnwrappedKeepsOriginal ==
    \A i \in 1..N :
        (last_outcome[i] = "chatter" /\ ~Features("chatter").wrapped) =>
            /\ LatestResult(i).chunk_id = chunks[i].id
            /\ LatestResult(i).processed_content = chunks[i].content
            /\ LatestResult(i).errors = <<>>
            /\ LatestResult(i).validation_score = ValidateChunk(chunks[i].content, chunks[i]).score
            /\ LatestResult(i).validation_score # 0

\* a chunk's answers in round 0 and in the first retry round were no markup
UnwrappedKeepsOriginalWitness ==
    /\ pc = "loop"
    /\ attempt = 1
    /\ \E i \in 1..N :
          /\ last_outcome[i] = "chatter"
          /\ total_calls[i] = 2
          /\ chunk_results[i].processed_content = chunks[i].content
          /\ chunk_results[i].errors = <<>>

====
